---------------------------- MODULE Spec2Model ----------------------------
(***************************************************************************)
(* Model of the group service of gpt-load (package services, GroupService) *)
(* : the per-group rate limiter CheckRateLimit, the monthly usage counter  *)
(* IncrementGroupMonthlyStat and the DeleteGroup transaction.              *)
(*                                                                         *)
(* Conventions.  A Go pointer (to int, string, RateLimitError) is a        *)
(* sequence of length 0 (nil) or 1.  A time is a number of ticks; an hour  *)
(* is TicksPerHour ticks and a month is HoursPerMonth hours.  A string     *)
(* that is meant to hold a time is a record [kind, t]: kind "ts" is a      *)
(* well-formed "2006-01-02 15:04:05" text of the time t, kind "empty" is   *)
(* "", kind "bad" is any other text.                                       *)
(***************************************************************************)
EXTENDS Integers, Sequences, FiniteSets, Bags, TLC

\* ---------------------------------------------------------------- bounds
TicksPerHour  == 2
HoursPerMonth == 2
MaxTime       == 4
MaxLimit      == 2
MaxHourly     == 2
ExpiryTime    == 1
MaxIncCalls   == 2
MaxKeys       == 3
MaxInitKeys   == 2
MaxDeletes    == 2
MaxInvalidations == 2
MaxGroupID    == 3
MaxShutdownTimeout == 6
MaxInFlight   == 1
MaxAttempts   == 2
MaxLockout    == 2
MaxFailures   == 3

GroupIDs == {1, 2}
Workers  == {1, 2}

Nil == <<>>
Ptr(v) == <<v>>

\* ------------------------------------------------------------- variables
VARIABLES
    now,           \* time.Now()
    groups,        \* table groups: id -> row
    hourlyStats,   \* table group_hourly_stats: set of rows
    monthlyStats,  \* table group_monthly_stats: set of rows
    rl,            \* the last CheckRateLimit call and what it returned
    inc,           \* IncrementGroupMonthlyStat: each worker's call in flight
    incLog,        \* IncrementGroupMonthlyStat: the calls that have returned
    apiKeys,       \* table api_keys: set of rows
    subGroups,     \* table group_sub_groups: set of edges
    store,         \* key pool in the KV store: group id -> key ids
    nextKeyID,     \* the auto-increment id of api_keys
    invalidations, \* the number of groupManager.Invalidate() calls so far
    del,           \* DeleteGroup: the call in flight and its transaction
    call,          \* CreateGroup, UpdateGroup, CopyGroup: the call in flight
    nextGroupID,   \* the auto-increment id of groups
    app,           \* App: its configuration, Start and Stop, the HTTP servers
    authConfig,    \* configManager.GetAuthConfig()
    limiter,       \* LoginLimiter: failedAttempts and lockoutUntil
    req,           \* Server.Login: each request in flight and its response
    upd            \* UpdateGroup: the calls of concurrent requests in flight

delVars == <<apiKeys, subGroups, store, nextKeyID, invalidations, del>>
vars == <<now, groups, hourlyStats, monthlyStats, rl, inc, incLog,
          apiKeys, subGroups, store, nextKeyID, invalidations, del,
          call, nextGroupID, app, authConfig, limiter, req, upd>>

\* ------------------------------------------------------------------ time
\* time.Hour
Hour == TicksPerHour
MonthLen == HoursPerMonth * TicksPerHour

\* now.Truncate(time.Hour)
TruncateHour(t) == t - (t % Hour)

\* time.Date(now.Year(), now.Month(), 1, 0, 0, 0, 0, now.Location())
MonthStart(t) == t - (t % MonthLen)

\* currentMonth.AddDate(0, 1, 0)
AddOneMonth(m) == m + MonthLen

\* time.ParseInLocation("2006-01-02 15:04:05", s, time.Local)
ParseInLocation(s) ==
    IF s.kind = "ts" THEN [err |-> FALSE, t |-> s.t]
                     ELSE [err |-> TRUE, t |-> 0]

TimeStr(t) == [kind |-> "ts", t |-> t]
\* "" : rejected by ParseInLocation like any other malformed text
EmptyStr == [kind |-> "empty", t |-> 0]
BadStr == [kind |-> "bad", t |-> 0]

\* ----------------------------------------------------------- group config
\* models.GroupConfig, the three fields CheckRateLimit reads
ExpiresAtValues ==
    {Nil, Ptr(BadStr), Ptr(TimeStr(ExpiryTime))}
LimitValues == {Nil} \cup {Ptr(n) : n \in 0..MaxLimit}

GroupConfigs ==
    [ExpiresAt : ExpiresAtValues,
     MaxRequestsPerHour : LimitValues,
     MaxRequestsPerMonth : LimitValues]

\* no expiry and no quota
NoLimits == [ExpiresAt |-> Nil, MaxRequestsPerHour |-> Nil, MaxRequestsPerMonth |-> Nil]

\* ------------------------------------------------------------ table reads
\* Where("group_id = ? AND time = ?", groupID, currentHour) on group_hourly_stats
HourlyRows(g, h) == {r \in hourlyStats : r.group_id = g /\ r.time = h}

\* Where("group_id = ? AND month = ?", groupID, currentMonth) on group_monthly_stats
MonthlyRows(g, m) == {r \in monthlyStats : r.group_id = g /\ r.month = m}

\* First(&row): the row with the lowest primary key; rows of one bucket are
\* told apart by their counters only, so any of them stands for it
FirstOf(rows) == CHOOSE r \in rows : TRUE

\* ---------------------------------------------------------- CheckRateLimit
RateLimitError(reason, limit, used, resetAt) ==
    Ptr([Reason |-> reason, Limit |-> limit, Used |-> used, ResetAt |-> resetAt])

\* 1. expiry
CheckExpired(config, t) ==
    IF config.ExpiresAt # Nil /\ config.ExpiresAt[1] # EmptyStr
    THEN LET parsed == ParseInLocation(config.ExpiresAt[1])
         IN IF ~parsed.err /\ t > parsed.t
            THEN RateLimitError("expired", 0, 0, parsed.t)
            ELSE Nil
    ELSE Nil

\* CheckHourly with "totalRequests > limit" for ">="
CheckHourly_StrictGreater(g, config, t, readErr) ==
    IF config.MaxRequestsPerHour # Nil /\ config.MaxRequestsPerHour[1] > 0
    THEN LET currentHour == TruncateHour(t)
             rows == HourlyRows(g, currentHour)
         IN IF ~readErr /\ rows # {}
            THEN LET hourlyStat == FirstOf(rows)
                     totalRequests == hourlyStat.success_count + hourlyStat.failure_count
                 IN IF totalRequests > config.MaxRequestsPerHour[1]
                    THEN RateLimitError("hourly_limit", config.MaxRequestsPerHour[1],
                                        totalRequests, currentHour + Hour)
                    ELSE Nil
            ELSE Nil
    ELSE Nil

\* CheckHourly with "limit >= 0" for "limit > 0": a limit of 0 is enforced
CheckHourly_ZeroEnforced(g, config, t, readErr) ==
    IF config.MaxRequestsPerHour # Nil /\ config.MaxRequestsPerHour[1] >= 0
    THEN LET currentHour == TruncateHour(t)
             rows == HourlyRows(g, currentHour)
         IN IF ~readErr /\ rows # {}
            THEN LET hourlyStat == FirstOf(rows)
                     totalRequests == hourlyStat.success_count + hourlyStat.failure_count
                 IN IF totalRequests >= config.MaxRequestsPerHour[1]
                    THEN RateLimitError("hourly_limit", config.MaxRequestsPerHour[1],
                                        totalRequests, currentHour + Hour)
                    ELSE Nil
            ELSE Nil
    ELSE Nil

\* CheckHourly that denies the request when the hourly row cannot be read
CheckHourly_ReadErrorDenies(g, config, t, readErr) ==
    IF config.MaxRequestsPerHour # Nil /\ config.MaxRequestsPerHour[1] > 0
    THEN LET currentHour == TruncateHour(t)
             rows == HourlyRows(g, currentHour)
         IN IF readErr
            THEN RateLimitError("hourly_limit", config.MaxRequestsPerHour[1],
                                0, currentHour + Hour)
            ELSE IF rows # {}
            THEN LET hourlyStat == FirstOf(rows)
                     totalRequests == hourlyStat.success_count + hourlyStat.failure_count
                 IN IF totalRequests >= config.MaxRequestsPerHour[1]
                    THEN RateLimitError("hourly_limit", config.MaxRequestsPerHour[1],
                                        totalRequests, currentHour + Hour)
                    ELSE Nil
            ELSE Nil
    ELSE Nil

\* 2. hourly quota; readErr: the read of the row failed
CheckHourly(g, config, t, readErr) ==
    IF config.MaxRequestsPerHour # Nil /\ config.MaxRequestsPerHour[1] > 0
    THEN LET currentHour == TruncateHour(t)
             rows == HourlyRows(g, currentHour)
         IN IF ~readErr /\ rows # {}
            THEN LET hourlyStat == FirstOf(rows)
                     totalRequests == hourlyStat.success_count + hourlyStat.failure_count
                 IN IF totalRequests >= config.MaxRequestsPerHour[1]
                    THEN RateLimitError("hourly_limit", config.MaxRequestsPerHour[1],
                                        totalRequests, currentHour + Hour)
                    ELSE Nil
            ELSE Nil
    ELSE Nil

\* CheckMonthly with "RequestCount > limit" for ">="
CheckMonthly_StrictGreater(g, config, t, readErr) ==
    IF config.MaxRequestsPerMonth # Nil /\ config.MaxRequestsPerMonth[1] > 0
    THEN LET currentMonth == MonthStart(t)
             rows == MonthlyRows(g, currentMonth)
         IN IF ~readErr /\ rows # {}
            THEN LET monthlyStat == FirstOf(rows)
                 IN IF monthlyStat.request_count > config.MaxRequestsPerMonth[1]
                    THEN RateLimitError("monthly_limit", config.MaxRequestsPerMonth[1],
                                        monthlyStat.request_count, AddOneMonth(currentMonth))
                    ELSE Nil
            ELSE Nil
    ELSE Nil

\* 3. monthly quota; readErr: the read of the row failed
CheckMonthly(g, config, t, readErr) ==
    IF config.MaxRequestsPerMonth # Nil /\ config.MaxRequestsPerMonth[1] > 0
    THEN LET currentMonth == MonthStart(t)
             rows == MonthlyRows(g, currentMonth)
         IN IF ~readErr /\ rows # {}
            THEN LET monthlyStat == FirstOf(rows)
                 IN IF monthlyStat.request_count >= config.MaxRequestsPerMonth[1]
                    THEN RateLimitError("monthly_limit", config.MaxRequestsPerMonth[1],
                                        monthlyStat.request_count, AddOneMonth(currentMonth))
                    ELSE Nil
            ELSE Nil
    ELSE Nil

\* RateLimitResult with the two quotas checked before the expiry
RateLimitResult_QuotaFirst(g, t, errs) ==
    IF g \notin DOMAIN groups \/ "group" \in errs
    THEN Nil
    ELSE LET config == groups[g].Config
             expired == CheckExpired(config, t)
             hourly == CheckHourly(g, config, t, "hourly" \in errs)
             monthly == CheckMonthly(g, config, t, "monthly" \in errs)
         IN IF hourly # Nil THEN hourly
            ELSE IF monthly # Nil THEN monthly
            ELSE expired

\* the value CheckRateLimit(groupID) returns at time t; errs: the reads that fail
RateLimitResult(g, t, errs) ==
    IF g \notin DOMAIN groups \/ "group" \in errs
    THEN Nil
    ELSE LET config == groups[g].Config
             expired == CheckExpired(config, t)
             hourly == CheckHourly(g, config, t, "hourly" \in errs)
         IN IF expired # Nil THEN expired
            ELSE IF hourly # Nil THEN hourly
            ELSE CheckMonthly(g, config, t, "monthly" \in errs)

\* at most one of the three reads of a call fails
ReadErrs == {{}, {"group"}, {"hourly"}, {"monthly"}}

\* CheckRateLimit that counts a denied request as a failure of the current hour
CheckRateLimit_CountsDenied(g, errs) ==
    /\ rl' = [called |-> TRUE, groupID |-> g, ret |-> RateLimitResult(g, now, errs)]
    /\ hourlyStats' =
          IF rl'.ret = Nil THEN hourlyStats
          ELSE LET rows == HourlyRows(g, TruncateHour(now))
                   old == IF rows = {}
                          THEN [group_id |-> g, time |-> TruncateHour(now),
                                success_count |-> 0, failure_count |-> 0]
                          ELSE FirstOf(rows)
               IN (hourlyStats \ rows) \cup {[old EXCEPT !.failure_count = @ + 1]}
    /\ UNCHANGED <<now, groups, monthlyStats, inc, incLog, delVars, call, nextGroupID, app, authConfig, limiter, req, upd>>

CheckRateLimit(g, errs) ==
    /\ rl' = [called |-> TRUE, groupID |-> g, ret |-> RateLimitResult(g, now, errs)]
    /\ UNCHANGED <<now, groups, hourlyStats, monthlyStats, inc, incLog, delVars, call, nextGroupID, app, authConfig, limiter, req, upd>>

\* ------------------------------------------------- hourly roll-up (writer)
\* The request-log consumer's upsert of one log into
\* GroupHourlyStat(group, current hour):
\* INSERT ... ON CONFLICT (group_id, time) DO UPDATE SET count = count + 1
HourlyTotal == LET Sum[S \in SUBSET hourlyStats] ==
                       IF S = {} THEN 0
                       ELSE LET r == CHOOSE x \in S : TRUE
                            IN r.success_count + r.failure_count + Sum[S \ {r}]
               IN Sum[hourlyStats]

UpsertHourlyStat(g, isSuccess) ==
    /\ g \in DOMAIN groups
    /\ HourlyTotal < MaxHourly
    /\ LET h == TruncateHour(now)
           rows == HourlyRows(g, h)
           old == IF rows = {}
                  THEN [group_id |-> g, time |-> h, success_count |-> 0, failure_count |-> 0]
                  ELSE FirstOf(rows)
           new == IF isSuccess
                  THEN [old EXCEPT !.success_count = @ + 1]
                  ELSE [old EXCEPT !.failure_count = @ + 1]
       IN hourlyStats' = (hourlyStats \ rows) \cup {new}
    /\ UNCHANGED <<now, groups, monthlyStats, rl, inc, incLog, delVars, call, nextGroupID, app, authConfig, limiter, req, upd>>

\* ----------------------------------------------- IncrementGroupMonthlyStat
Idle == [pc |-> "idle", groupID |-> 0, isSuccess |-> FALSE, currentMonth |-> 0]

IncStarted == BagCardinality(incLog) + Cardinality({w \in Workers : inc[w].pc # "idle"})

\* the call up to and including First(&stat): not found -> the create branch,
\* found -> the update branch
IncFirst(w, g, isSuccess) ==
    /\ inc[w].pc = "idle"
    /\ g \in DOMAIN groups
    /\ IncStarted < MaxIncCalls
    /\ LET currentMonth == MonthStart(now)
       IN inc' = [inc EXCEPT ![w] =
                    [pc |-> IF MonthlyRows(g, currentMonth) = {} THEN "create" ELSE "update",
                     groupID |-> g, isSuccess |-> isSuccess,
                     currentMonth |-> currentMonth]]
    /\ UNCHANGED <<now, groups, hourlyStats, monthlyStats, rl, incLog, delVars, call, nextGroupID, app, authConfig, limiter, req, upd>>

\* the unique index (group_id, month) of group_monthly_stats refuses a second row
UniqueViolation(g, m) == MonthlyRows(g, m) # {}

Returned(c, err) ==
    [groupID |-> c.groupID, month |-> c.currentMonth,
     isSuccess |-> c.isSuccess, err |-> err]

\* s.db.Create(&stat): the row with RequestCount 1 and one of the two counters 1
NewMonthlyStat(c) ==
    [group_id |-> c.groupID, month |-> c.currentMonth, request_count |-> 1,
     success_count |-> IF c.isSuccess THEN 1 ELSE 0,
     failure_count |-> IF c.isSuccess THEN 0 ELSE 1]

\* the create branch of the call c: the tables and the log of returned calls
CreateBranch(c) ==
    IF UniqueViolation(c.groupID, c.currentMonth)
    THEN /\ monthlyStats' = monthlyStats
         /\ incLog' = incLog (+) SetToBag({Returned(c, TRUE)})
    ELSE /\ monthlyStats' = monthlyStats \cup {NewMonthlyStat(c)}
         /\ incLog' = incLog (+) SetToBag({Returned(c, FALSE)})

IncCreate(w) ==
    /\ inc[w].pc = "create"
    /\ CreateBranch(inc[w])
    /\ inc' = [inc EXCEPT ![w] = Idle]
    /\ UNCHANGED <<now, groups, hourlyStats, rl, delVars, call, nextGroupID, app, authConfig, limiter, req, upd>>

\* UpdatedMonthlyStat without the request_count column
UpdatedMonthlyStat_NoRequestCount(r, c) ==
    [r EXCEPT !.success_count = IF c.isSuccess THEN @ + 1 ELSE @,
              !.failure_count = IF c.isSuccess THEN @ ELSE @ + 1]

\* Updates(request_count + 1, success_count + 1 | failure_count + 1): one
\* UPDATE statement over every row of the bucket
UpdatedMonthlyStat(r, c) ==
    [r EXCEPT !.request_count = @ + 1,
              !.success_count = IF c.isSuccess THEN @ + 1 ELSE @,
              !.failure_count = IF c.isSuccess THEN @ ELSE @ + 1]

\* the update branch of the call c
UpdateBranch(c) ==
    /\ LET rows == MonthlyRows(c.groupID, c.currentMonth)
       IN monthlyStats' = (monthlyStats \ rows) \cup {UpdatedMonthlyStat(r, c) : r \in rows}
    /\ incLog' = incLog (+) SetToBag({Returned(c, FALSE)})

IncUpdate(w) ==
    /\ inc[w].pc = "update"
    /\ UpdateBranch(inc[w])
    /\ inc' = [inc EXCEPT ![w] = Idle]
    /\ UNCHANGED <<now, groups, hourlyStats, rl, delVars, call, nextGroupID, app, authConfig, limiter, req, upd>>

\* a whole call with no other call in flight: First, then Create or Updates
IncrementGroupMonthlyStat(g, isSuccess) ==
    /\ \A w \in Workers : inc[w].pc = "idle"
    /\ g \in DOMAIN groups
    /\ IncStarted < MaxIncCalls
    /\ LET c == [pc |-> "idle", groupID |-> g, isSuccess |-> isSuccess,
                 currentMonth |-> MonthStart(now)]
       IN IF MonthlyRows(g, c.currentMonth) = {} THEN CreateBranch(c) ELSE UpdateBranch(c)
    /\ UNCHANGED <<now, groups, hourlyStats, rl, inc, delVars, call, nextGroupID, app, authConfig, limiter, req, upd>>

\* ------------------------------------------------------------------ clock
Tick ==
    /\ now < MaxTime
    /\ now' = now + 1
    /\ UNCHANGED <<groups, hourlyStats, monthlyStats, rl, inc, incLog, delVars, call, nextGroupID, app, authConfig, limiter, req, upd>>

\* ------------------------------------------------------------ DeleteGroup
\* A transaction holds its deletes until Commit applies them; Rollback drops
\* them.  A statement sees the committed rows.
rateFrame == <<now, hourlyStats, monthlyStats, rl, inc, incLog,
              call, nextGroupID, app, authConfig, limiter, req, upd>>

NoDelete == [pc |-> "idle", id |-> 0, keyIDs |-> {}, txEdges |-> {}, txKeys |-> {},
             txGroup |-> FALSE, ret |-> "", invalidateErr |-> FALSE, calls |-> 0]

\* the return of a call: the deferred Rollback (tx # nil) drops the deletes
Return(d, ret) ==
    [d EXCEPT !.pc = "done", !.ret = ret,
              !.txEdges = {}, !.txKeys = {}, !.txGroup = FALSE]

\* Find(&apiKeys) WHERE group_id = id, outside the transaction, and keyIDs
DeleteFindKeys(id) ==
    /\ del.pc \in {"idle", "done"}
    /\ del.calls < MaxDeletes
    /\ del' = [NoDelete EXCEPT !.pc = "begin", !.id = id, !.calls = del.calls + 1,
                               !.keyIDs = {r.id : r \in {x \in apiKeys : x.group_id = id}}]
    /\ UNCHANGED <<groups, apiKeys, subGroups, store, nextKeyID, invalidations, rateFrame>>

\* Begin() and tx.First(&group, id)
DeleteFirst ==
    /\ del.pc = "begin"
    /\ del' = IF del.id \in DOMAIN groups
              THEN [del EXCEPT !.pc = "edges"]
              ELSE Return(del, "not_found")
    /\ UNCHANGED <<groups, apiKeys, subGroups, store, nextKeyID, invalidations, rateFrame>>

\* DeleteEdges that deletes only the edges the group is the parent of
DeleteEdges_ParentOnly ==
    /\ del.pc = "edges"
    /\ del' = [del EXCEPT !.pc = "keys",
                          !.txEdges = {e \in subGroups : e.group_id = del.id}]
    /\ UNCHANGED <<groups, apiKeys, subGroups, store, nextKeyID, invalidations, rateFrame>>

\* tx.Where("group_id = ? OR sub_group_id = ?", id, id).Delete(&GroupSubGroup{})
DeleteEdges ==
    /\ del.pc = "edges"
    /\ del' = [del EXCEPT !.pc = "keys",
                          !.txEdges = {e \in subGroups :
                                         e.group_id = del.id \/ e.sub_group_id = del.id}]
    /\ UNCHANGED <<groups, apiKeys, subGroups, store, nextKeyID, invalidations, rateFrame>>

\* tx.Where("group_id = ?", id).Delete(&APIKey{})
DeleteKeys ==
    /\ del.pc = "keys"
    /\ del' = [del EXCEPT !.pc = "group",
                          !.txKeys = {r \in apiKeys : r.group_id = del.id}]
    /\ UNCHANGED <<groups, apiKeys, subGroups, store, nextKeyID, invalidations, rateFrame>>

\* tx.Delete(&Group{}, id)
DeleteGroupRow ==
    /\ del.pc = "group"
    /\ del' = [del EXCEPT !.pc = "store", !.txGroup = TRUE]
    /\ UNCHANGED <<groups, apiKeys, subGroups, store, nextKeyID, invalidations, rateFrame>>

\* a statement of the transaction fails: the call returns a database error
DeleteStmtFails ==
    /\ del.pc \in {"begin", "edges", "keys", "group"}
    /\ del' = Return(del, "db_error")
    /\ UNCHANGED <<groups, apiKeys, subGroups, store, nextKeyID, invalidations, rateFrame>>

\* KeyProvider.RemoveKeysFromStore(groupID, keyIDs): the ids leave the pool
RemoveKeysFromStore(groupID, keyIDs) ==
    [store EXCEPT ![groupID] = @ \ keyIDs]

\* what the call does when RemoveKeysFromStore has failed
KVFailure(d) == Return(d, "cache_error")

\* DeleteFromStore that only logs a failed RemoveKeysFromStore and goes on to
\* Commit
DeleteFromStore_ErrorIgnored(ok) ==
    /\ del.pc = "store"
    /\ store' = IF del.keyIDs # {} /\ ok
                THEN RemoveKeysFromStore(del.id, del.keyIDs)
                ELSE store
    /\ del' = [del EXCEPT !.pc = "commit"]
    /\ UNCHANGED <<groups, apiKeys, subGroups, nextKeyID, invalidations, rateFrame>>

\* if len(keyIDs) > 0 { RemoveKeysFromStore(id, keyIDs) }, ok: it succeeds
DeleteFromStore(ok) ==
    /\ del.pc = "store"
    /\ IF del.keyIDs # {}
       THEN IF ok
            THEN /\ store' = RemoveKeysFromStore(del.id, del.keyIDs)
                 /\ del' = [del EXCEPT !.pc = "commit"]
            ELSE /\ store' = store
                 /\ del' = KVFailure(del)
       ELSE /\ ok
            /\ store' = store
            /\ del' = [del EXCEPT !.pc = "commit"]
    /\ UNCHANGED <<groups, apiKeys, subGroups, nextKeyID, invalidations, rateFrame>>

\* tx.Commit(), ok: it succeeds and the deletes are applied
DeleteCommit(ok) ==
    /\ del.pc = "commit"
    /\ IF ok
       THEN /\ groups' = [g \in DOMAIN groups \ (IF del.txGroup THEN {del.id} ELSE {})
                                |-> groups[g]]
            /\ apiKeys' = apiKeys \ del.txKeys
            /\ subGroups' = subGroups \ del.txEdges
            /\ del' = [del EXCEPT !.pc = "invalidate",
                                  !.txEdges = {}, !.txKeys = {}, !.txGroup = FALSE]
       ELSE /\ UNCHANGED <<groups, apiKeys, subGroups>>
            /\ del' = Return(del, "db_error")
    /\ UNCHANGED <<store, nextKeyID, invalidations, rateFrame>>

\* groupManager.Invalidate(), ok: it returns no error; an error is only
\* logged, and return nil
DeleteInvalidate(ok) ==
    /\ del.pc = "invalidate"
    /\ invalidations' = invalidations + 1
    /\ del' = [Return(del, "ok") EXCEPT !.invalidateErr = ~ok]
    /\ UNCHANGED <<groups, apiKeys, subGroups, store, nextKeyID, rateFrame>>

\* the rows of a group's api_keys are locked by a transaction that has
\* deleted them and has not ended
KeysLocked(g) == del.id = g /\ del.pc \in {"group", "store", "commit"}

\* the key service adds a key to a standard group: the row and the pool entry
AddKey(g) ==
    /\ g \in DOMAIN groups
    /\ groups[g].GroupType = "standard"
    /\ ~KeysLocked(g)
    /\ nextKeyID <= MaxKeys
    /\ apiKeys' = apiKeys \cup {[id |-> nextKeyID, group_id |-> g]}
    /\ store' = [store EXCEPT ![g] = @ \cup {nextKeyID}]
    /\ nextKeyID' = nextKeyID + 1
    /\ UNCHANGED <<groups, subGroups, invalidations, del, rateFrame>>

\* ---------------------------------------------------------------- strings
\* A Go string is a TLA+ string; its i-th byte is CharAt(s, i).
CharAt(s, i) == SubSeq(s, i, i)

\* strings.TrimSpace
RECURSIVE TrimLeft(_)
TrimLeft(s) ==
    IF Len(s) > 0 /\ CharAt(s, 1) = " " THEN TrimLeft(SubSeq(s, 2, Len(s))) ELSE s

RECURSIVE TrimRight(_)
TrimRight(s) ==
    IF Len(s) > 0 /\ CharAt(s, Len(s)) = " " THEN TrimRight(SubSeq(s, 1, Len(s) - 1)) ELSE s

TrimSpace(s) == TrimRight(TrimLeft(s))

\* strings.HasPrefix, strings.Contains
HasPrefix(s, prefix) == Len(s) >= Len(prefix) /\ SubSeq(s, 1, Len(prefix)) = prefix
Contains(s, substr) ==
    \E i \in 1..(Len(s) - Len(substr) + 1) : SubSeq(s, i, i + Len(substr) - 1) = substr

CharsOf(s) == {CharAt(s, i) : i \in 1..Len(s)}
LowerLetters == "abcdefghijklmnopqrstuvwxyz"
UpperLetters == "ABCDEFGHIJKLMNOPQRSTUVWXYZ"
Digits == "0123456789"

\* the position of the one-byte string c in letters, 0 when it is not there
IndexIn(c, letters) ==
    IF c \in CharsOf(letters)
    THEN CHOOSE i \in 1..Len(letters) : CharAt(letters, i) = c
    ELSE 0

ToUpper(c) == IF IndexIn(c, LowerLetters) > 0
              THEN CharAt(UpperLetters, IndexIn(c, LowerLetters)) ELSE c
ToLower(c) == IF IndexIn(c, UpperLetters) > 0
              THEN CharAt(LowerLetters, IndexIn(c, UpperLetters)) ELSE c

\* net/http: the bytes a header field name may hold (of its punctuation the
\* apostrophe and the backquote, which no key of the model holds, are left out)
HeaderFieldBytes ==
    CharsOf(LowerLetters) \cup CharsOf(UpperLetters) \cup CharsOf(Digits)
        \cup CharsOf("!#$%&*+-.^_|~")

RECURSIVE CanonicalFrom(_, _)
CanonicalFrom(s, upper) ==
    IF Len(s) = 0 THEN ""
    ELSE LET c == CharAt(s, 1)
         IN (IF upper THEN ToUpper(c) ELSE ToLower(c))
                \o CanonicalFrom(SubSeq(s, 2, Len(s)), c = "-")

\* http.CanonicalHeaderKey: the first letter and any letter after a hyphen in
\* upper case, the rest in lower case; a key that holds a space or another
\* byte not allowed in a field name is returned as it is
CanonicalHeaderKey(s) ==
    IF CharsOf(s) \subseteq HeaderFieldBytes THEN CanonicalFrom(s, TRUE) ELSE s

\* ------------------------------------------------------ group validation
\* regexp "^[a-z0-9_-]{1,100}$"
NameBytes == CharsOf(LowerLetters) \cup CharsOf(Digits) \cup {"_", "-"}

isValidGroupName(name) ==
    IF name = "" THEN FALSE
    ELSE Len(name) \in 1..100 /\ CharsOf(name) \subseteq NameBytes

isValidValidationEndpoint(endpoint) ==
    IF endpoint = "" THEN TRUE
    ELSE IF ~HasPrefix(endpoint, "/") THEN FALSE
    ELSE IF Contains(endpoint, "://") THEN FALSE
    ELSE TRUE

\* channel.GetChannels(): the registered channel adapters
channelRegistry == {"openai", "gemini", "anthropic"}

isValidChannelType(channelType) == channelType \in channelRegistry

\* the result of a validation: an error, or the cleaned value
Failed(kind) == [err |-> TRUE, kind |-> kind, val |-> <<>>]
Invalid == Failed("validation")
Cleaned(v) == [err |-> FALSE, kind |-> "", val |-> v]

\* json.RawMessage of upstreams: no bytes, bytes that do not unmarshal into
\* []{url, weight}, or the JSON of a list of definitions
NoJSON == [kind |-> "none", defs |-> <<>>]
BadJSON == [kind |-> "malformed", defs |-> <<>>]
JSONList(defs) == [kind |-> "list", defs |-> defs]

validateAndCleanUpstreams(upstreams) ==
    IF upstreams.kind = "none" THEN Invalid
    ELSE IF upstreams.kind = "malformed" THEN Invalid
    ELSE LET defs == [i \in 1..Len(upstreams.defs) |->
                        [upstreams.defs[i] EXCEPT !.url = TrimSpace(@)]]
             hasActiveUpstream == \E i \in 1..Len(defs) : defs[i].weight > 0
         IN IF Len(defs) = 0 THEN Invalid
            ELSE IF \E i \in 1..Len(defs) :
                       \/ defs[i].url = ""
                       \/ ~HasPrefix(defs[i].url, "http://") /\ ~HasPrefix(defs[i].url, "https://")
                       \/ defs[i].weight < 0
                 THEN Invalid
            ELSE IF ~hasActiveUpstream THEN Invalid
            ELSE Cleaned(defs)

\* normalizeHeaderRules, the loop from the rule at the head of rules on
RECURSIVE NormalizeFrom_NoDuplicateCheck(_, _, _)
NormalizeFrom_NoDuplicateCheck(rules, normalized, seenKeys) ==
    IF rules = <<>> THEN Cleaned(normalized)
    ELSE LET rule == Head(rules)
             key == TrimSpace(rule.Key)
             canonicalKey == CanonicalHeaderKey(key)
         IN IF key = "" THEN NormalizeFrom_NoDuplicateCheck(Tail(rules), normalized, seenKeys)
            ELSE NormalizeFrom_NoDuplicateCheck(Tail(rules),
                               Append(normalized, [Key |-> canonicalKey, Value |-> rule.Value,
                                                   Action |-> rule.Action]),
                               seenKeys \cup {canonicalKey})

RECURSIVE NormalizeFrom(_, _, _)
NormalizeFrom(rules, normalized, seenKeys) ==
    IF rules = <<>> THEN Cleaned(normalized)
    ELSE LET rule == Head(rules)
             key == TrimSpace(rule.Key)
             canonicalKey == CanonicalHeaderKey(key)
         IN IF key = "" THEN NormalizeFrom(Tail(rules), normalized, seenKeys)
            ELSE IF canonicalKey \in seenKeys THEN Invalid
            ELSE NormalizeFrom(Tail(rules),
                               Append(normalized, [Key |-> canonicalKey, Value |-> rule.Value,
                                                   Action |-> rule.Action]),
                               seenKeys \cup {canonicalKey})

\* normalizeHeaderRules, and the empty JSON list the caller puts for a nil
\* result: the list of the rules kept, <<>> when none is
normalizeHeaderRules(rules) ==
    IF Len(rules) = 0 THEN Cleaned(<<>>) ELSE NormalizeFrom(rules, <<>>, {})

\* validateModelRedirectRules, rules a set of <<source, target>> pairs
validateModelRedirectRules(rules) ==
    \A kv \in rules : TrimSpace(kv[1]) # "" /\ TrimSpace(kv[2]) # ""

\* a JSON value of a config map
JSONNull == [type |-> "null", n |-> 0, s |-> EmptyStr]
JSONNumber(n) == [type |-> "number", n |-> n, s |-> EmptyStr]
JSONString(s) == [type |-> "string", n |-> 0, s |-> s]

rateLimitFields == {"expires_at", "max_requests_per_hour", "max_requests_per_month"}

\* the json names of models.GroupConfig that the model carries
validFields == rateLimitFields

Present(configMap, key) == key \in DOMAIN configMap /\ configMap[key].type # "null"

validateRateLimitConfig(configMap) ==
    /\ Present(configMap, "expires_at") =>
          /\ configMap["expires_at"].type = "string"
          /\ ~ParseInLocation(configMap["expires_at"].s).err
    /\ Present(configMap, "max_requests_per_hour") =>
          /\ configMap["max_requests_per_hour"].type = "number"
          /\ configMap["max_requests_per_hour"].n >= 0
    /\ Present(configMap, "max_requests_per_month") =>
          /\ configMap["max_requests_per_month"].type = "number"
          /\ configMap["max_requests_per_month"].n >= 0

\* json.Unmarshal of the map into models.GroupConfig
GroupConfigOf(configMap) ==
    [ExpiresAt |-> IF Present(configMap, "expires_at")
                   THEN Ptr(configMap["expires_at"].s) ELSE Nil,
     MaxRequestsPerHour |-> IF Present(configMap, "max_requests_per_hour")
                            THEN Ptr(configMap["max_requests_per_hour"].n) ELSE Nil,
     MaxRequestsPerMonth |-> IF Present(configMap, "max_requests_per_month")
                             THEN Ptr(configMap["max_requests_per_month"].n) ELSE Nil]

\* validateAndCleanConfig, config a pointer to the map: nil is a nil map
validateAndCleanConfig(config) ==
    IF config = Nil THEN Cleaned(NoLimits)
    ELSE LET configMap == config[1]
         IN IF ~(DOMAIN configMap \subseteq validFields) THEN Invalid
            ELSE IF ~validateRateLimitConfig(configMap) THEN Invalid
            ELSE Cleaned(GroupConfigOf(configMap))

\* ------------------------------------------- CreateGroup, UpdateGroup, CopyGroup
\* A call is in flight from its first step to its return.  pc "create" and
\* "save": the transaction is open and the statement is about to run;
\* "commit": the statement has run, the row call.group under call.id is the
\* write the transaction holds; "invalidate": Commit has applied it.
NoGroupCall ==
    [op |-> "", pc |-> "idle", id |-> 0, src |-> 0, option |-> "", group |-> Nil,
     ret |-> "", invalidateErr |-> FALSE, keyCount |-> 0]

\* what the three calls leave alone
groupFrame == <<apiKeys, subGroups, store, nextKeyID, del, now, hourlyStats,
                monthlyStats, rl, inc, incLog, app, authConfig, limiter, req, upd>>

GroupCallIdle == call.pc \in {"idle", "done"}

\* the return of a call: an open transaction is rolled back and its write
\* dropped, the locals are gone
GroupReturn(c, ret) ==
    [NoGroupCall EXCEPT !.op = c.op, !.pc = "done", !.id = c.id, !.ret = ret]

\* the unique index on groups.name: a row other than id has the name
NameTaken(name, id) == \E g \in DOMAIN groups \ {id} : groups[g].Name = name

\* Commit applies the write of the transaction
Committed(c) == (c.id :> c.group[1]) @@ groups

MapOf(rules) == IF rules = Nil THEN {} ELSE rules[1]

\* CreateGroup up to the group literal: the validation error or the group
CreateValidated(params) ==
    LET name == TrimSpace(params.Name)
        channelType == TrimSpace(params.ChannelType)
        groupType == IF TrimSpace(params.GroupType) = "" THEN "standard"
                     ELSE TrimSpace(params.GroupType)
        testModel == IF groupType = "aggregate" THEN "-" ELSE TrimSpace(params.TestModel)
        cleanedUpstreams == IF groupType = "aggregate" THEN Cleaned(<<>>)
                            ELSE validateAndCleanUpstreams(params.Upstreams)
        validationEndpoint == IF groupType = "aggregate" THEN ""
                              ELSE TrimSpace(params.ValidationEndpoint)
        cleanedConfig == validateAndCleanConfig(params.Config)
        headerRulesJSON == normalizeHeaderRules(params.HeaderRules)
    IN IF ~isValidGroupName(name) THEN Invalid
       ELSE IF ~isValidChannelType(channelType) THEN Invalid
       ELSE IF groupType # "standard" /\ groupType # "aggregate" THEN Invalid
       ELSE IF groupType = "standard" /\ testModel = "" THEN Invalid
       ELSE IF cleanedUpstreams.err THEN Invalid
       ELSE IF ~isValidValidationEndpoint(validationEndpoint) THEN Invalid
       ELSE IF cleanedConfig.err THEN Invalid
       ELSE IF headerRulesJSON.err THEN Invalid
       ELSE IF groupType = "aggregate" /\ Cardinality(MapOf(params.ModelRedirectRules)) > 0
            THEN Invalid
       ELSE IF ~validateModelRedirectRules(MapOf(params.ModelRedirectRules)) THEN Invalid
       ELSE Cleaned([Name |-> name,
                     GroupType |-> groupType,
                     Upstreams |-> cleanedUpstreams.val,
                     ChannelType |-> channelType,
                     TestModel |-> testModel,
                     ValidationEndpoint |-> validationEndpoint,
                     ModelRedirectRules |-> MapOf(params.ModelRedirectRules),
                     Config |-> cleanedConfig.val,
                     HeaderRules |-> headerRulesJSON.val])

\* CreateGroup: the validation and Begin()
CreateGroup(params) ==
    /\ GroupCallIdle
    /\ invalidations < MaxInvalidations
    /\ nextGroupID <= MaxGroupID
    /\ LET v == CreateValidated(params)
       IN call' = IF v.err
                  THEN GroupReturn([NoGroupCall EXCEPT !.op = "create"], v.kind)
                  ELSE [NoGroupCall EXCEPT !.op = "create", !.pc = "create",
                                           !.group = Ptr(v.val)]
    /\ UNCHANGED <<groups, nextGroupID, invalidations, groupFrame>>

\* tx.Create(&group), ok: the statement does not fail for another reason than
\* the unique index; a failure rolls back
CreateRow(ok) ==
    /\ call.pc = "create" /\ call.op = "create"
    /\ IF ok /\ ~NameTaken(call.group[1].Name, 0)
       THEN /\ call' = [call EXCEPT !.pc = "commit", !.id = nextGroupID]
            /\ nextGroupID' = nextGroupID + 1
       ELSE /\ call' = GroupReturn(call, "db_error")
            /\ nextGroupID' = nextGroupID
    /\ UNCHANGED <<groups, invalidations, groupFrame>>

\* CreateCommit that goes on to Invalidate when Commit has failed
CreateCommit_InvalidateAfterFailure(ok) ==
    /\ call.pc = "commit" /\ call.op = "create"
    /\ groups' = IF ok THEN Committed(call) ELSE groups
    /\ call' = [call EXCEPT !.pc = "invalidate"]
    /\ UNCHANGED <<nextGroupID, invalidations, groupFrame>>

\* tx.Commit(), ok: it succeeds
CreateCommit(ok) ==
    /\ call.pc = "commit" /\ call.op = "create"
    /\ IF ok
       THEN /\ groups' = Committed(call)
            /\ call' = [call EXCEPT !.pc = "invalidate"]
       ELSE /\ groups' = groups
            /\ call' = GroupReturn(call, "db_error")
    /\ UNCHANGED <<nextGroupID, invalidations, groupFrame>>

\* groupManager.Invalidate(), ok: it returns no error; an error is logged
CreateInvalidate(ok) ==
    /\ call.pc = "invalidate" /\ call.op = "create"
    /\ invalidations' = invalidations + 1
    /\ call' = [GroupReturn(call, "ok") EXCEPT !.invalidateErr = ~ok]
    /\ UNCHANGED <<groups, nextGroupID, groupFrame>>

\* ------------------------------------------------------------ UpdateGroup
\* aggregateGroupService.CountAggregateGroupsUsingSubGroup(ctx, id)
CountAggregateGroupsUsingSubGroup(id) ==
    Cardinality({e.group_id : e \in {x \in subGroups : x.sub_group_id = id}})

\* if params.Name != nil
UpdateName(group, params) ==
    IF params.Name # Nil
    THEN LET cleanedName == TrimSpace(params.Name[1])
         IN IF ~isValidGroupName(cleanedName) THEN Invalid
            ELSE Cleaned([group EXCEPT !.Name = cleanedName])
    ELSE Cleaned(group)

\* if params.HasUpstreams
UpdateUpstreams(group, params) ==
    IF params.HasUpstreams
    THEN LET cleanedUpstreams == validateAndCleanUpstreams(params.Upstreams)
         IN IF cleanedUpstreams.err THEN Invalid
            ELSE Cleaned([group EXCEPT !.Upstreams = cleanedUpstreams.val])
    ELSE Cleaned(group)

\* UpdateSubGroupCheck that protects the channel type only
UpdateSubGroupCheck_ChannelOnly(group, params, id, countErr) ==
    IF group.GroupType # "aggregate"
          /\ (params.ChannelType # Nil \/ params.ValidationEndpoint # Nil)
    THEN IF countErr THEN Failed("db_error")
         ELSE IF CountAggregateGroupsUsingSubGroup(id) > 0
                    /\ params.ChannelType # Nil
                    /\ group.ChannelType # TrimSpace(params.ChannelType[1])
              THEN Invalid
         ELSE Cleaned(group)
    ELSE Cleaned(group)

\* a group that aggregate groups use keeps its channel type and its
\* validation endpoint; countErr: the count of those groups failed
UpdateSubGroupCheck(group, params, id, countErr) ==
    IF group.GroupType # "aggregate"
          /\ (params.ChannelType # Nil \/ params.ValidationEndpoint # Nil)
    THEN IF countErr THEN Failed("db_error")
         ELSE IF CountAggregateGroupsUsingSubGroup(id) > 0
                    /\ \/ /\ params.ChannelType # Nil
                          /\ group.ChannelType # TrimSpace(params.ChannelType[1])
                       \/ /\ params.ValidationEndpoint # Nil
                          /\ group.ValidationEndpoint # TrimSpace(params.ValidationEndpoint[1])
              THEN Invalid
         ELSE Cleaned(group)
    ELSE Cleaned(group)

\* if params.ChannelType != nil && group.GroupType != "aggregate"
UpdateChannelType(group, params) ==
    IF params.ChannelType # Nil /\ group.GroupType # "aggregate"
    THEN LET cleanedChannelType == TrimSpace(params.ChannelType[1])
         IN IF ~isValidChannelType(cleanedChannelType) THEN Invalid
            ELSE Cleaned([group EXCEPT !.ChannelType = cleanedChannelType])
    ELSE Cleaned(group)

\* if params.HasTestModel
UpdateTestModel(group, params) ==
    IF params.HasTestModel
    THEN LET cleanedTestModel == TrimSpace(params.TestModel)
         IN IF cleanedTestModel = "" THEN Invalid
            ELSE Cleaned([group EXCEPT !.TestModel = cleanedTestModel])
    ELSE Cleaned(group)

\* UpdateModelRedirectRules without the check for aggregate groups
UpdateModelRedirectRules_AnyGroup(group, params) ==
    IF params.ModelRedirectRules # Nil
    THEN IF ~validateModelRedirectRules(params.ModelRedirectRules[1]) THEN Invalid
         ELSE Cleaned([group EXCEPT !.ModelRedirectRules = params.ModelRedirectRules[1]])
    ELSE Cleaned(group)

\* the model redirect rules
UpdateModelRedirectRules(group, params) ==
    IF group.GroupType = "aggregate" /\ params.ModelRedirectRules # Nil
          /\ Cardinality(params.ModelRedirectRules[1]) > 0
    THEN Invalid
    ELSE IF params.ModelRedirectRules # Nil
         THEN IF ~validateModelRedirectRules(params.ModelRedirectRules[1]) THEN Invalid
              ELSE Cleaned([group EXCEPT !.ModelRedirectRules = params.ModelRedirectRules[1]])
    ELSE Cleaned(group)

\* if params.ValidationEndpoint != nil
UpdateValidationEndpoint(group, params) ==
    IF params.ValidationEndpoint # Nil
    THEN LET validationEndpoint == TrimSpace(params.ValidationEndpoint[1])
         IN IF ~isValidValidationEndpoint(validationEndpoint) THEN Invalid
            ELSE Cleaned([group EXCEPT !.ValidationEndpoint = validationEndpoint])
    ELSE Cleaned(group)

\* if params.Config != nil
UpdateConfig(group, params) ==
    IF params.Config # Nil
    THEN LET cleanedConfig == validateAndCleanConfig(params.Config)
         IN IF cleanedConfig.err THEN Invalid
            ELSE Cleaned([group EXCEPT !.Config = cleanedConfig.val])
    ELSE Cleaned(group)

\* if params.HeaderRules != nil
UpdateHeaderRules(group, params) ==
    IF params.HeaderRules # Nil
    THEN LET headerRulesJSON == normalizeHeaderRules(params.HeaderRules[1])
         IN IF headerRulesJSON.err THEN Invalid
            ELSE Cleaned([group EXCEPT !.HeaderRules = headerRulesJSON.val])
    ELSE Cleaned(group)

\* UpdateGroup from the loaded group to the Save: the first error in the
\* order of the code, or the group in memory with the supplied fields set.
\* No block reads a field that a block before it has set, so each block is
\* applied to the loaded group and sets its own field of the result.
UpdateFields(group, params, id, countErr) ==
    IF UpdateName(group, params).err THEN UpdateName(group, params)
    ELSE IF UpdateUpstreams(group, params).err THEN UpdateUpstreams(group, params)
    ELSE IF UpdateSubGroupCheck(group, params, id, countErr).err
         THEN UpdateSubGroupCheck(group, params, id, countErr)
    ELSE IF UpdateChannelType(group, params).err THEN UpdateChannelType(group, params)
    ELSE IF UpdateTestModel(group, params).err THEN UpdateTestModel(group, params)
    ELSE IF UpdateModelRedirectRules(group, params).err
         THEN UpdateModelRedirectRules(group, params)
    ELSE IF UpdateValidationEndpoint(group, params).err
         THEN UpdateValidationEndpoint(group, params)
    ELSE IF UpdateConfig(group, params).err THEN UpdateConfig(group, params)
    ELSE IF UpdateHeaderRules(group, params).err THEN UpdateHeaderRules(group, params)
    ELSE Cleaned([Name |-> UpdateName(group, params).val.Name,
                  GroupType |-> group.GroupType,
                  Upstreams |-> UpdateUpstreams(group, params).val.Upstreams,
                  ChannelType |-> UpdateChannelType(group, params).val.ChannelType,
                  TestModel |-> UpdateTestModel(group, params).val.TestModel,
                  ValidationEndpoint |->
                      UpdateValidationEndpoint(group, params).val.ValidationEndpoint,
                  ModelRedirectRules |->
                      UpdateModelRedirectRules(group, params).val.ModelRedirectRules,
                  Config |-> UpdateConfig(group, params).val.Config,
                  HeaderRules |-> UpdateHeaderRules(group, params).val.HeaderRules])

\* UpdateGroup: First(&group, id), Begin() and the changes in memory
UpdateGroup(id, params, countErr) ==
    /\ GroupCallIdle
    /\ invalidations < MaxInvalidations
    /\ call' = IF id \notin DOMAIN groups
               THEN GroupReturn([NoGroupCall EXCEPT !.op = "update", !.id = id], "not_found")
               ELSE LET r == UpdateFields(groups[id], params, id, countErr)
                    IN IF r.err
                       THEN GroupReturn([NoGroupCall EXCEPT !.op = "update", !.id = id], r.kind)
                       ELSE [NoGroupCall EXCEPT !.op = "update", !.pc = "save", !.id = id,
                                                !.group = Ptr(r.val)]
    /\ UNCHANGED <<groups, nextGroupID, invalidations, groupFrame>>

\* UpdateSave with the statement run on the database handle, outside the
\* transaction
UpdateSave_NoTransaction(ok) ==
    /\ call.pc = "save" /\ call.op = "update"
    /\ IF ok /\ ~NameTaken(call.group[1].Name, call.id)
       THEN /\ groups' = Committed(call)
            /\ call' = [call EXCEPT !.pc = "commit"]
       ELSE /\ groups' = groups
            /\ call' = GroupReturn(call, "db_error")
    /\ UNCHANGED <<nextGroupID, invalidations, groupFrame>>

\* tx.Save(&group), ok: the statement does not fail for another reason than
\* the unique index
UpdateSave(ok) ==
    /\ call.pc = "save" /\ call.op = "update"
    /\ call' = IF ok /\ ~NameTaken(call.group[1].Name, call.id)
               THEN [call EXCEPT !.pc = "commit"]
               ELSE GroupReturn(call, "db_error")
    /\ UNCHANGED <<groups, nextGroupID, invalidations, groupFrame>>

\* tx.Commit(), ok: it succeeds
UpdateCommit(ok) ==
    /\ call.pc = "commit" /\ call.op = "update"
    /\ IF ok
       THEN /\ groups' = Committed(call)
            /\ call' = [call EXCEPT !.pc = "invalidate"]
       ELSE /\ groups' = groups
            /\ call' = GroupReturn(call, "db_error")
    /\ UNCHANGED <<nextGroupID, invalidations, groupFrame>>

\* groupManager.Invalidate(), ok: it returns no error; an error is logged
UpdateInvalidate(ok) ==
    /\ call.pc = "invalidate" /\ call.op = "update"
    /\ invalidations' = invalidations + 1
    /\ call' = [GroupReturn(call, "ok") EXCEPT !.invalidateErr = ~ok]
    /\ UNCHANGED <<groups, nextGroupID, groupFrame>>

\* UpdateGroup called by concurrent requests.  The call of request w: its
\* arguments, the group it has loaded and changed in memory, its position
\* ("save": the transaction is open; "commit": Save has run and the
\* transaction holds the row) and what it has returned (&group with nil).
NoUpdateCall == [pc |-> "idle", id |-> 0, params |-> Nil, group |-> Nil, ret |-> ""]

updFrame == <<call, nextGroupID, apiKeys, subGroups, store, nextKeyID, del, now, hourlyStats,
              monthlyStats, rl, inc, incLog, app, authConfig, limiter, req>>

UpdateReturn(c, ret) == [c EXCEPT !.pc = "done", !.ret = ret]

\* First(&group, id) on the database handle, Begin() and the changes in memory
ConcurrentUpdateGroup(w, id, params) ==
    /\ upd[w].pc = "idle"
    /\ LET c == [NoUpdateCall EXCEPT !.id = id, !.params = Ptr(params)]
       IN upd' = [upd EXCEPT ![w] =
                    IF id \notin DOMAIN groups THEN UpdateReturn(c, "not_found")
                    ELSE LET r == UpdateFields(groups[id], params, id, FALSE)
                         IN IF r.err THEN UpdateReturn(c, r.kind)
                            ELSE [c EXCEPT !.pc = "save", !.group = Ptr(r.val)]]
    /\ UNCHANGED <<groups, invalidations, updFrame>>

\* tx.Save(&group): an UPDATE of every column of the row, which waits while
\* the transaction of another request holds the row; ok: the statement does
\* not fail for another reason than the unique index
ConcurrentUpdateSave(w, ok) ==
    /\ upd[w].pc = "save"
    /\ \A v \in Workers \ {w} : ~(upd[v].pc = "commit" /\ upd[v].id = upd[w].id)
    /\ upd' = [upd EXCEPT ![w] =
                 IF ok /\ ~NameTaken(upd[w].group[1].Name, upd[w].id)
                 THEN [@ EXCEPT !.pc = "commit"]
                 ELSE UpdateReturn([@ EXCEPT !.group = Nil], "db_error")]
    /\ UNCHANGED <<groups, invalidations, updFrame>>

\* tx.Commit(), ok: it succeeds
ConcurrentUpdateCommit(w, ok) ==
    /\ upd[w].pc = "commit"
    /\ IF ok
       THEN /\ groups' = (upd[w].id :> upd[w].group[1]) @@ groups
            /\ upd' = [upd EXCEPT ![w].pc = "invalidate"]
       ELSE /\ groups' = groups
            /\ upd' = [upd EXCEPT ![w] = UpdateReturn([@ EXCEPT !.group = Nil], "db_error")]
    /\ UNCHANGED <<invalidations, updFrame>>

\* groupManager.Invalidate() and the return of &group
ConcurrentUpdateInvalidate(w) ==
    /\ upd[w].pc = "invalidate"
    /\ invalidations' = invalidations + 1
    /\ upd' = [upd EXCEPT ![w] = UpdateReturn(@, "ok")]
    /\ UNCHANGED <<groups, updFrame>>

\* -------------------------------------------------------------- CopyGroup
RECURSIVE FirstFreeCopyName(_, _, _)
FirstFreeCopyName(baseName, existingNames, i) ==
    IF i > 1000 THEN baseName \o "_copy"
    ELSE LET candidate == baseName \o "_copy_" \o ToString(i)
         IN IF candidate \notin existingNames THEN candidate
            ELSE FirstFreeCopyName(baseName, existingNames, i + 1)

\* generateUniqueGroupName, namesOk: the read of the names succeeds
generateUniqueGroupName(baseName, namesOk) ==
    LET existingNames == {groups[g].Name : g \in DOMAIN groups}
        copyName == baseName \o "_copy"
    IN IF ~namesOk THEN copyName
       ELSE IF copyName \notin existingNames THEN copyName
       ELSE FirstFreeCopyName(baseName, existingNames, 2)

\* CopyGroup: the option, First(&sourceGroup, sourceGroupID), Begin() and
\* newGroup
CopyGroup(sourceGroupID, copyKeysOption, namesOk) ==
    /\ GroupCallIdle
    /\ invalidations < MaxInvalidations
    /\ nextGroupID <= MaxGroupID
    /\ LET option == IF TrimSpace(copyKeysOption) = "" THEN "all"
                     ELSE TrimSpace(copyKeysOption)
           c == [NoGroupCall EXCEPT !.op = "copy", !.src = sourceGroupID, !.option = option]
       IN call' = IF option # "none" /\ option # "valid_only" /\ option # "all"
                  THEN GroupReturn(c, "validation")
                  ELSE IF sourceGroupID \notin DOMAIN groups
                  THEN GroupReturn(c, "not_found")
                  ELSE [c EXCEPT !.pc = "create",
                                 !.group = Ptr([groups[sourceGroupID] EXCEPT
                                     !.Name = generateUniqueGroupName(@, namesOk)])]
    /\ UNCHANGED <<groups, nextGroupID, invalidations, groupFrame>>

\* tx.Create(&newGroup) and the read of the source keys to copy, ok: neither
\* fails for another reason than the unique index
CopyRow(ok) ==
    /\ call.pc = "create" /\ call.op = "copy"
    /\ IF ok /\ ~NameTaken(call.group[1].Name, 0)
       THEN /\ call' = [call EXCEPT !.pc = "commit", !.id = nextGroupID,
                           !.keyCount = IF call.option # "none"
                                        THEN Cardinality({k \in apiKeys : k.group_id = call.src})
                                        ELSE 0]
            /\ nextGroupID' = nextGroupID + 1
       ELSE /\ call' = GroupReturn(call, "db_error")
            /\ nextGroupID' = nextGroupID
    /\ UNCHANGED <<groups, invalidations, groupFrame>>

\* tx.Commit(), ok: it succeeds
CopyCommit(ok) ==
    /\ call.pc = "commit" /\ call.op = "copy"
    /\ IF ok
       THEN /\ groups' = Committed(call)
            /\ call' = [call EXCEPT !.pc = "invalidate"]
       ELSE /\ groups' = groups
            /\ call' = GroupReturn(call, "db_error")
    /\ UNCHANGED <<nextGroupID, invalidations, groupFrame>>

\* groupManager.Invalidate(), ok: it returns no error; an error is logged.
\* The call.keyCount key values read then go to keyImportSvc.StartImportTask.
CopyInvalidate(ok) ==
    /\ call.pc = "invalidate" /\ call.op = "copy"
    /\ invalidations' = invalidations + 1
    /\ call' = [GroupReturn(call, "ok") EXCEPT !.invalidateErr = ~ok]
    /\ UNCHANGED <<groups, nextGroupID, groupFrame>>

\* ------------------------------------------------------------------- App
\* The application of one instance.  IsMaster, ProxyPort and
\* GracefulShutdownTimeout (seconds) are its configuration.  done lists the
\* calls Start has completed; started holds the background services that
\* run; a server is "nil" (not created), "created" (its goroutine has not
\* listened yet), "serving", "shutdown" (Shutdown is draining it),
\* "timedout" (Shutdown has returned an error) or "down"; elapsed is the
\* time in seconds since Stop was called, which is also the age of the
\* context the caller of Stop has made with the total timeout.
ReservedSeconds == 5

Servers == {"httpServer", "proxyHTTPServer"}

NewApp(isMaster, proxyPort, timeout) ==
    [IsMaster |-> isMaster, ProxyPort |-> proxyPort, GracefulShutdownTimeout |-> timeout,
     pc |-> "new", next |-> 1, done |-> <<>>, ret |-> "",
     servers |-> [s \in Servers |-> [state |-> "nil", inflight |-> 0, closed |-> FALSE]],
     started |-> {}, elapsed |-> 0, stopCalled |-> {}, stopping |-> {},
     storageClosed |-> 0]

\* what the master runs between i18n.Init and groupManager.Initialize
MasterSteps ==
    <<"storage.Clear", "db.AutoMigrate", "db.MigrateDatabase",
      "settingsManager.EnsureSettingsInitialized", "settingsManager.Initialize",
      "keyPoolProvider.LoadKeysFromDB",
      "requestLogService.Start", "logCleanupService.Start", "cronChecker.Start">>

\* Start with the master's background services started before the keys are
\* loaded
StartProgram_ServicesFirst(a) ==
    <<"i18n.Init">>
        \o (IF a.IsMaster
            THEN <<"storage.Clear", "db.AutoMigrate", "db.MigrateDatabase",
                   "settingsManager.EnsureSettingsInitialized", "settingsManager.Initialize",
                   "requestLogService.Start", "logCleanupService.Start", "cronChecker.Start",
                   "keyPoolProvider.LoadKeysFromDB">>
            ELSE <<"settingsManager.Initialize">>)
        \o <<"groupManager.Initialize", "go httpServer.ListenAndServe">>
        \o (IF a.ProxyPort > 0 THEN <<"go proxyHTTPServer.ListenAndServe">> ELSE <<>>)

\* Start with the keys loaded on every instance
StartProgram_SlaveLoadsKeys(a) ==
    <<"i18n.Init">>
        \o (IF a.IsMaster THEN MasterSteps
            ELSE <<"settingsManager.Initialize", "keyPoolProvider.LoadKeysFromDB">>)
        \o <<"groupManager.Initialize", "go httpServer.ListenAndServe">>
        \o (IF a.ProxyPort > 0 THEN <<"go proxyHTTPServer.ListenAndServe">> ELSE <<>>)

\* the calls of Start in the order of its code
StartProgram(a) ==
    <<"i18n.Init">>
        \o (IF a.IsMaster THEN MasterSteps ELSE <<"settingsManager.Initialize">>)
        \o <<"groupManager.Initialize", "go httpServer.ListenAndServe">>
        \o (IF a.ProxyPort > 0 THEN <<"go proxyHTTPServer.ListenAndServe">> ELSE <<>>)

\* the calls whose error Start returns
Fallible ==
    {"i18n.Init", "storage.Clear", "db.AutoMigrate", "db.MigrateDatabase",
     "settingsManager.EnsureSettingsInitialized", "keyPoolProvider.LoadKeysFromDB"}

\* the background service a call starts, the server a go statement creates
StartedBy ==
    ("requestLogService.Start" :> "requestLogService")
        @@ ("logCleanupService.Start" :> "logCleanupService")
        @@ ("cronChecker.Start" :> "cronChecker")

CreatedBy ==
    ("go httpServer.ListenAndServe" :> "httpServer")
        @@ ("go proxyHTTPServer.ListenAndServe" :> "proxyHTTPServer")

\* keyPoolProvider.LoadKeysFromDB(): the key pool of every group from api_keys
LoadKeysFromDB == [g \in DOMAIN store |-> {k.id : k \in {x \in apiKeys : x.group_id = g}}]

appFrame == <<now, groups, hourlyStats, monthlyStats, rl, inc, incLog, apiKeys, subGroups,
              nextKeyID, invalidations, del, call, nextGroupID, authConfig, limiter, req, upd>>

\* Start: its next call, ok: a fallible call returns no error.  The error
\* of a call is returned at once; after the last call Start returns nil.
StartStep(ok) ==
    /\ app.pc \in {"new", "starting"}
    /\ LET program == StartProgram(app)
           step == program[app.next]
           last == app.next = Len(program)
       IN IF step \in Fallible /\ ~ok
          THEN /\ app' = [app EXCEPT !.pc = "failed", !.ret = "error"]
               /\ store' = store
          ELSE /\ app' = [app EXCEPT
                    !.pc = IF last THEN "started" ELSE "starting",
                    !.ret = IF last THEN "ok" ELSE "",
                    !.next = @ + 1,
                    !.done = Append(@, step),
                    !.started = IF step \in DOMAIN StartedBy THEN @ \cup {StartedBy[step]} ELSE @,
                    !.servers = IF step \in DOMAIN CreatedBy
                                THEN [@ EXCEPT ![CreatedBy[step]].state = "created"] ELSE @]
               /\ store' = IF step = "storage.Clear" THEN [g \in DOMAIN store |-> {}]
                           ELSE IF step = "keyPoolProvider.LoadKeysFromDB" THEN LoadKeysFromDB
                           ELSE store
    /\ UNCHANGED appFrame

\* the goroutine of a server: ListenAndServe, ok: the listener opens; if it
\* does not, logrus.Fatalf ends the process
ListenAndServe(s, ok) ==
    /\ app.pc \in {"starting", "started"}
    /\ app.servers[s].state = "created"
    /\ app' = IF ok THEN [app EXCEPT !.servers[s].state = "serving"]
              ELSE [app EXCEPT !.pc = "fatal"]
    /\ UNCHANGED <<store, appFrame>>

\* a request arrives at a server that listens; a request in flight ends
Accept(s) ==
    /\ app.pc # "fatal"
    /\ app.servers[s].state = "serving"
    /\ app.servers[s].inflight < MaxInFlight
    /\ app' = [app EXCEPT !.servers[s].inflight = @ + 1]
    /\ UNCHANGED <<store, appFrame>>

Finish(s) ==
    /\ app.pc # "fatal"
    /\ app.servers[s].state \in {"serving", "shutdown"}
    /\ app.servers[s].inflight > 0
    /\ app' = [app EXCEPT !.servers[s].inflight = @ - 1]
    /\ UNCHANGED <<store, appFrame>>

\* httpShutdownTimeout := totalTimeout - 5*time.Second, without the
\* reservation
httpShutdownTimeout_NoReserve(a) == a.GracefulShutdownTimeout

httpShutdownTimeout(a) == a.GracefulShutdownTimeout - ReservedSeconds

\* Stop, called once Start has returned nil: the context of the HTTP
\* shutdown starts with Stop
StopBegin ==
    /\ app.pc = "started"
    /\ app' = [app EXCEPT !.pc = "http", !.elapsed = 0]
    /\ UNCHANGED <<store, appFrame>>

\* the goroutine of a server that exists calls Shutdown(httpShutdownCtx):
\* the listener closes
Shutdown(s) ==
    /\ app.pc = "http"
    /\ app.servers[s].state \in {"created", "serving"}
    /\ app' = [app EXCEPT !.servers[s].state = "shutdown"]
    /\ UNCHANGED <<store, appFrame>>

\* Shutdown returns nil once no request is in flight, and the error of the
\* context once its timeout has passed with a request in flight
ShutdownReturns(s) ==
    /\ app.pc = "http"
    /\ app.servers[s].state = "shutdown"
    /\ IF app.servers[s].inflight = 0
       THEN app' = [app EXCEPT !.servers[s].state = "down"]
       ELSE /\ app.elapsed >= httpShutdownTimeout(app)
            /\ app' = [app EXCEPT !.servers[s].state = "timedout"]
    /\ UNCHANGED <<store, appFrame>>

\* if err != nil: Close() drops the connections that are left
Close(s) ==
    /\ app.pc = "http"
    /\ app.servers[s].state = "timedout"
    /\ app' = [app EXCEPT !.servers[s] = [state |-> "down", inflight |-> 0, closed |-> TRUE]]
    /\ UNCHANGED <<store, appFrame>>

\* stoppableServices with the services of the master on every instance
stoppableServices_Always(a) ==
    {"groupManager", "settingsManager", "cronChecker", "logCleanupService",
     "requestLogService"}

\* the services Stop stops
stoppableServices(a) ==
    {"groupManager", "settingsManager"}
        \cup (IF a.IsMaster THEN {"cronChecker", "logCleanupService", "requestLogService"}
              ELSE {})

\* wg.Wait() returns when the goroutines of the servers are done; a
\* goroutine then calls stop(ctx) of every stoppable service
StopServices ==
    /\ app.pc = "http"
    /\ \A s \in Servers : app.servers[s].state \in {"nil", "down"}
    /\ app' = [app EXCEPT !.pc = "services", !.stopCalled = stoppableServices(app),
                          !.stopping = stoppableServices(app)]
    /\ UNCHANGED <<store, appFrame>>

\* ctx.Done() of the context Stop is called with: the caller has made it
\* with the total timeout when it called Stop
ctxDone(a) == a.elapsed >= a.GracefulShutdownTimeout

\* the Stop of a service returns
ServiceStopped(service) ==
    /\ app.pc = "services"
    /\ service \in app.stopping
    /\ app' = [app EXCEPT !.stopping = @ \ {service}, !.started = @ \ {service}]
    /\ UNCHANGED <<store, appFrame>>

\* select: every Stop has returned, or the context of the caller is done
\* (the total timeout has passed); then storage.Close() and the return
StopSelect ==
    /\ app.pc = "services"
    /\ app.stopping = {} \/ ctxDone(app)
    /\ app' = [app EXCEPT !.pc = "exited", !.storageClosed = @ + 1]
    /\ UNCHANGED <<store, appFrame>>

\* a second passes while Stop waits: for a server that drains within its
\* timeout, or for the services within the total timeout.  The steps of
\* Stop itself take no time.
StopTick ==
    /\ \/ /\ app.pc = "http"
          /\ \E s \in Servers : app.servers[s].state = "shutdown"
          /\ \A s \in Servers :
                \/ app.servers[s].state \in {"nil", "down"}
                \/ /\ app.servers[s].state = "shutdown"
                   /\ app.servers[s].inflight > 0
                   /\ app.elapsed < httpShutdownTimeout(app)
       \/ /\ app.pc = "services"
          /\ app.stopping # {}
          /\ ~ctxDone(app)
    /\ app' = [app EXCEPT !.elapsed = @ + 1]
    /\ UNCHANGED <<store, appFrame>>


\* ---------------------------------------------------------- LoginLimiter
\* the configuration before it is read, and the zero time.Time, which is
\* before every time
NoAuthConfig == [Key |-> "", MaxFailedAttempts |-> 0, LockoutDuration |-> 0]
ZeroTime == 0 - 1
NewLoginLimiter == [failedAttempts |-> 0, lockoutUntil |-> ZeroTime]

\* a Login request: pc "idle" (none), "checked" (CheckLogin has allowed it)
\* or "done"; key is the key it supplies, status the HTTP status of the
\* response, by the call that decided it, compared whether the key has
\* been compared
NoRequest == [pc |-> "idle", key |-> "", status |-> 0, by |-> "", compared |-> FALSE]

Response(key, status, by, compared) ==
    [pc |-> "done", key |-> key, status |-> status, by |-> by, compared |-> compared]

loginFrame == <<groups, hourlyStats, monthlyStats, rl, inc, incLog, delVars,
                call, nextGroupID, app, authConfig, upd>>

\* CheckLogin: allowed
CheckLogin(ll, t) == ~(ll.lockoutUntil > t)

\* RecordSuccess that clears the lockout and keeps the counter
RecordSuccess_KeepsCounter(ll) == [ll EXCEPT !.lockoutUntil = ZeroTime]

\* RecordSuccess and Reset
RecordSuccess(ll) == [failedAttempts |-> 0, lockoutUntil |-> ZeroTime]

\* RecordFailure that starts the count again when it locks
RecordFailure_LockResetsCounter(ll, config, t) ==
    LET failedAttempts == ll.failedAttempts + 1
    IN IF failedAttempts >= config.MaxFailedAttempts
       THEN [limiter |-> [failedAttempts |-> 0,
                          lockoutUntil |-> t + config.LockoutDuration],
             locked |-> TRUE]
       ELSE [limiter |-> [ll EXCEPT !.failedAttempts = failedAttempts], locked |-> FALSE]

\* RecordFailure that locks only beyond the threshold
RecordFailure_StrictGreater(ll, config, t) ==
    LET failedAttempts == ll.failedAttempts + 1
    IN IF failedAttempts > config.MaxFailedAttempts
       THEN [limiter |-> [failedAttempts |-> failedAttempts,
                          lockoutUntil |-> t + config.LockoutDuration],
             locked |-> TRUE]
       ELSE [limiter |-> [ll EXCEPT !.failedAttempts = failedAttempts], locked |-> FALSE]

\* RecordFailure: the limiter after it, and whether it has locked
RecordFailure(ll, config, t) ==
    LET failedAttempts == ll.failedAttempts + 1
    IN IF failedAttempts >= config.MaxFailedAttempts
       THEN [limiter |-> [failedAttempts |-> failedAttempts,
                          lockoutUntil |-> t + config.LockoutDuration],
             locked |-> TRUE]
       ELSE [limiter |-> [ll EXCEPT !.failedAttempts = failedAttempts], locked |-> FALSE]

\* Login up to the return of CheckLogin; bound: the body binds to a
\* LoginRequest with the key AuthKey
Login(w, bound, AuthKey) ==
    /\ req[w].pc \in {"idle", "done"}
    /\ req' = [req EXCEPT ![w] =
                 IF ~bound THEN Response("", 400, "ShouldBindJSON", FALSE)
                 ELSE IF ~CheckLogin(limiter, now) THEN Response(AuthKey, 429, "CheckLogin", FALSE)
                 ELSE [NoRequest EXCEPT !.pc = "checked", !.key = AuthKey]]
    /\ UNCHANGED <<now, limiter, loginFrame>>

\* LoginCompare that looks at the lockout again before it compares the key
LoginCompare_ChecksAgain(w) ==
    /\ req[w].pc = "checked"
    /\ IF ~CheckLogin(limiter, now)
       THEN /\ limiter' = limiter
            /\ req' = [req EXCEPT ![w] = Response(req[w].key, 429, "CheckLogin", FALSE)]
       ELSE IF req[w].key = authConfig.Key
       THEN /\ limiter' = RecordSuccess(limiter)
            /\ req' = [req EXCEPT ![w] = Response(req[w].key, 200, "RecordSuccess", TRUE)]
       ELSE /\ limiter.failedAttempts < MaxFailures
            /\ LET r == RecordFailure(limiter, authConfig, now)
               IN /\ limiter' = r.limiter
                  /\ req' = [req EXCEPT ![w] =
                               Response(req[w].key, IF r.locked THEN 429 ELSE 401,
                                        "RecordFailure", TRUE)]
    /\ UNCHANGED <<now, loginFrame>>

\* Login from the comparison of the key on: RecordSuccess or RecordFailure
\* and the response
LoginCompare(w) ==
    /\ req[w].pc = "checked"
    /\ IF req[w].key = authConfig.Key
       THEN /\ limiter' = RecordSuccess(limiter)
            /\ req' = [req EXCEPT ![w] = Response(req[w].key, 200, "RecordSuccess", TRUE)]
       ELSE /\ limiter.failedAttempts < MaxFailures
            /\ LET r == RecordFailure(limiter, authConfig, now)
               IN /\ limiter' = r.limiter
                  /\ req' = [req EXCEPT ![w] =
                               Response(req[w].key, IF r.locked THEN 429 ELSE 401,
                                        "RecordFailure", TRUE)]
    /\ UNCHANGED <<now, loginFrame>>

\* Reset, for the administrator
Reset ==
    /\ limiter # RecordSuccess(limiter)
    /\ limiter' = RecordSuccess(limiter)
    /\ UNCHANGED <<now, req, loginFrame>>

\* --------------------------------------------------------- specifications
\* the group calls, the App and the login limiter at rest
InitElsewhere ==
    /\ call = NoGroupCall
    /\ nextGroupID = 1
    /\ app = NewApp(FALSE, 0, 0)
    /\ authConfig = NoAuthConfig
    /\ limiter = NewLoginLimiter
    /\ req = [w \in Workers |-> NoRequest]
    /\ upd = [w \in Workers |-> NoUpdateCall]

\* the tables and the store the rate limiter does not touch
InitNoKeys ==
    /\ apiKeys = {}
    /\ subGroups = {}
    /\ store = [g \in GroupIDs |-> {}]
    /\ nextKeyID = 1
    /\ invalidations = 0
    /\ del = NoDelete

NoCall == [called |-> FALSE, groupID |-> 0, ret |-> Nil]

InitRate ==
    /\ now = 0
    /\ \E c \in GroupConfigs :
          groups = (1 :> [GroupType |-> "standard", Config |-> c])
    /\ hourlyStats = {}
    /\ monthlyStats = {}
    /\ rl = NoCall
    /\ inc = [w \in Workers |-> Idle]
    /\ incLog = EmptyBag
    /\ InitNoKeys
    /\ InitElsewhere

\* the rate limiter, the hourly roll-up and IncrementGroupMonthlyStat called
\* by one caller at a time; group 1 exists, group 2 has no row
NextRate ==
    \/ Tick
    \/ \E g \in GroupIDs :
          \E errs \in (IF g \in DOMAIN groups THEN ReadErrs ELSE {{}}) :
             CheckRateLimit(g, errs)
    \/ \E g \in GroupIDs, ok \in BOOLEAN : UpsertHourlyStat(g, ok)
    \/ \E g \in GroupIDs, ok \in BOOLEAN : IncrementGroupMonthlyStat(g, ok)

SpecRate == InitRate /\ [][NextRate]_vars

\* concurrent callers of IncrementGroupMonthlyStat
InitInc ==
    /\ now \in {0, MonthLen - 1}
    /\ groups = [g \in GroupIDs |-> [GroupType |-> "standard", Config |-> NoLimits]]
    /\ hourlyStats = {}
    /\ monthlyStats = {}
    /\ rl = NoCall
    /\ inc = [w \in Workers |-> Idle]
    /\ incLog = EmptyBag
    /\ InitNoKeys
    /\ InitElsewhere

NextInc ==
    \/ Tick
    \/ \E w \in Workers, g \in GroupIDs, ok \in BOOLEAN : IncFirst(w, g, ok)
    \/ \E w \in Workers : IncCreate(w)
    \/ \E w \in Workers : IncUpdate(w)

SpecInc == InitInc /\ [][NextInc]_vars

\* DeleteGroup beside the key service: group 1 is a standard group that owns
\* the keys 1..n, group 2 an aggregate group that may have group 1 as sub-group
InitDelete ==
    /\ now = 0
    /\ groups = (1 :> [GroupType |-> "standard", Config |-> NoLimits])
                @@ (2 :> [GroupType |-> "aggregate", Config |-> NoLimits])
    /\ hourlyStats = {}
    /\ monthlyStats = {}
    /\ rl = NoCall
    /\ inc = [w \in Workers |-> Idle]
    /\ incLog = EmptyBag
    /\ \E n \in 0..MaxInitKeys :
          /\ apiKeys = {[id |-> k, group_id |-> 1] : k \in 1..n}
          /\ store = (1 :> 1..n) @@ (2 :> {})
          /\ nextKeyID = n + 1
    /\ subGroups \in SUBSET {[group_id |-> 2, sub_group_id |-> 1]}
    /\ invalidations = 0
    /\ del = NoDelete
    /\ InitElsewhere

NextDelete ==
    \/ \E id \in GroupIDs : DeleteFindKeys(id)
    \/ DeleteFirst
    \/ DeleteEdges
    \/ DeleteKeys
    \/ DeleteGroupRow
    \/ DeleteStmtFails
    \/ \E ok \in BOOLEAN : DeleteFromStore(ok)
    \/ \E ok \in BOOLEAN : DeleteCommit(ok)
    \/ \E ok \in BOOLEAN : DeleteInvalidate(ok)
    \/ \E g \in GroupIDs : AddKey(g)

SpecDelete == InitDelete /\ [][NextDelete]_vars

\* the group calls and DeleteGroup, one caller at a time, on a database that
\* holds the standard group "a" with one key
UpstreamOK == JSONList(<<[url |-> "http://u", weight |-> 1]>>)

BaseCreate ==
    [Name |-> "b", GroupType |-> "", Upstreams |-> UpstreamOK, ChannelType |-> "openai",
     TestModel |-> "m", ValidationEndpoint |-> "", ModelRedirectRules |-> Nil,
     Config |-> Nil, HeaderRules |-> <<>>]

NoUpdate ==
    [Name |-> Nil, GroupType |-> Nil, Upstreams |-> NoJSON, HasUpstreams |-> FALSE,
     ChannelType |-> Nil, TestModel |-> "", HasTestModel |-> FALSE,
     ValidationEndpoint |-> Nil, ModelRedirectRules |-> Nil, Config |-> Nil,
     HeaderRules |-> Nil]

\* a name of 96 bytes
LongName == "zzzzzzzzzzzzzzzzzzzzzzzzzzzzzzzzzzzzzzzzzzzzzzzzzzzzzzzzzzzzzzzzzzzzzzzzzzzzzzzzzzzzzzzzzzzzzzzz"

NameInputs == {"", " b ", "B", LongName}

CreateNameInputs ==
    {[BaseCreate EXCEPT !.Name = n] : n \in NameInputs}
        \cup {[BaseCreate EXCEPT !.ChannelType = "bogus"]}

UpdateNameInputs == {[NoUpdate EXCEPT !.Name = Ptr(n)] : n \in NameInputs} \cup {NoUpdate}

InitGroup ==
    /\ now = 0
    /\ groups = (1 :> [Name |-> "a", GroupType |-> "standard",
                       Upstreams |-> UpstreamOK.defs, ChannelType |-> "openai",
                       TestModel |-> "m", ValidationEndpoint |-> "",
                       ModelRedirectRules |-> {}, Config |-> NoLimits,
                       HeaderRules |-> <<>>])
    /\ hourlyStats = {}
    /\ monthlyStats = {}
    /\ rl = NoCall
    /\ inc = [w \in Workers |-> Idle]
    /\ incLog = EmptyBag
    /\ apiKeys = {[id |-> 1, group_id |-> 1]}
    /\ subGroups = {}
    /\ store = [g \in 1..MaxGroupID |-> IF g = 1 THEN {1} ELSE {}]
    /\ nextKeyID = 2
    /\ invalidations = 0
    /\ del = NoDelete
    /\ call = NoGroupCall
    /\ nextGroupID = 2
    /\ app = NewApp(FALSE, 0, 0)
    /\ authConfig = NoAuthConfig
    /\ limiter = NewLoginLimiter
    /\ req = [w \in Workers |-> NoRequest]
    /\ upd = [w \in Workers |-> NoUpdateCall]

NextGroup ==
    \/ \E params \in CreateNameInputs : del.pc \in {"idle", "done"} /\ CreateGroup(params)
    \/ \E ok \in BOOLEAN : CreateRow(ok)
    \/ \E ok \in BOOLEAN : CreateCommit(ok)
    \/ \E ok \in BOOLEAN : CreateInvalidate(ok)
    \/ \E id \in 1..MaxGroupID, params \in UpdateNameInputs :
          del.pc \in {"idle", "done"} /\ UpdateGroup(id, params, FALSE)
    \/ \E ok \in BOOLEAN : UpdateSave(ok)
    \/ \E ok \in BOOLEAN : UpdateCommit(ok)
    \/ \E ok \in BOOLEAN : UpdateInvalidate(ok)
    \/ \E id \in 1..MaxGroupID, option \in {"", " none ", "every"}, namesOk \in BOOLEAN :
          del.pc \in {"idle", "done"} /\ CopyGroup(id, option, namesOk)
    \/ \E ok \in BOOLEAN : CopyRow(ok)
    \/ \E ok \in BOOLEAN : CopyCommit(ok)
    \/ \E ok \in BOOLEAN : CopyInvalidate(ok)
    \/ \E id \in 1..MaxGroupID : GroupCallIdle /\ DeleteFindKeys(id)
    \/ DeleteFirst
    \/ DeleteEdges
    \/ DeleteKeys
    \/ DeleteGroupRow
    \/ DeleteStmtFails
    \/ \E ok \in BOOLEAN : DeleteFromStore(ok)
    \/ \E ok \in BOOLEAN : DeleteCommit(ok)
    \/ \E ok \in BOOLEAN : DeleteInvalidate(ok)

SpecGroup == InitGroup /\ [][NextGroup]_vars

\* CreateGroup and UpdateGroup, one caller at a time, on an empty database;
\* each input differs from a valid one in one field.  A standard group is
\* named "g", an aggregate group "h"; an update names a stored group or the
\* id that no group has yet.
HeaderRule(key, value, action) == [Key |-> key, Value |-> value, Action |-> action]

UpstreamInputs ==
    {NoJSON, BadJSON, JSONList(<<>>),
     JSONList(<<[url |-> " http://u ", weight |-> 1]>>),
     JSONList(<<[url |-> "https://v", weight |-> 0]>>),
     JSONList(<<[url |-> "http://u", weight |-> 0 - 1], [url |-> "https://v", weight |-> 1]>>),
     JSONList(<<[url |-> "ftp://u", weight |-> 1]>>),
     JSONList(<<[url |-> " ", weight |-> 1]>>),
     JSONList(<<[url |-> "http://u", weight |-> 0], [url |-> "https://v", weight |-> 2]>>)}

HeaderRuleInputs ==
    {<<>>,
     <<HeaderRule("x-a", "1", "set")>>,
     <<HeaderRule("x-b", "2", "remove"), HeaderRule(" x-a ", "1", "set")>>,
     <<HeaderRule("x-a", "1", "set"), HeaderRule("X-A", "2", "set")>>,
     <<HeaderRule("x-a", "1", "set"), HeaderRule(" ", "", "set"),
       HeaderRule(" X-a", "2", "remove")>>,
     <<HeaderRule(" ", "1", "set"), HeaderRule("", "2", "set")>>,
     <<HeaderRule("x-a", "1", "delete")>>}

HeaderRuleCreateInputs ==
    {[BaseCreate EXCEPT !.Name = "g", !.HeaderRules = r] : r \in HeaderRuleInputs}

HeaderRuleUpdateInputs == {[NoUpdate EXCEPT !.HeaderRules = Ptr(r)] : r \in HeaderRuleInputs}

FieldCreateInputs ==
    LET standard == [BaseCreate EXCEPT !.Name = "g"]
        aggregate == [BaseCreate EXCEPT !.Name = "h", !.GroupType = "aggregate"]
    IN {[standard EXCEPT !.Upstreams = u] : u \in UpstreamInputs}
         \cup {[standard EXCEPT !.TestModel = m] : m \in {"", " ", " m "}}
         \cup HeaderRuleCreateInputs
         \cup {[aggregate EXCEPT !.GroupType = t] : t \in {"aggregate", " aggregate ", "bogus"}}
         \cup {[aggregate EXCEPT !.ModelRedirectRules = Ptr({<<"m", "n">>})],
               [aggregate EXCEPT !.TestModel = ""]}

FieldUpdateInputs ==
    {NoUpdate, [NoUpdate EXCEPT !.GroupType = Ptr("aggregate")]}
        \cup {[NoUpdate EXCEPT !.HasUpstreams = TRUE, !.Upstreams = u] : u \in UpstreamInputs}
        \cup {[NoUpdate EXCEPT !.HasTestModel = TRUE, !.TestModel = m] : m \in {"", " n "}}
        \cup HeaderRuleUpdateInputs

InitFields ==
    /\ now = 0
    /\ groups = <<>>
    /\ hourlyStats = {}
    /\ monthlyStats = {}
    /\ rl = NoCall
    /\ inc = [w \in Workers |-> Idle]
    /\ incLog = EmptyBag
    /\ apiKeys = {}
    /\ subGroups = {}
    /\ store = [g \in 1..MaxGroupID |-> {}]
    /\ nextKeyID = 1
    /\ invalidations = 0
    /\ del = NoDelete
    /\ call = NoGroupCall
    /\ nextGroupID = 1
    /\ app = NewApp(FALSE, 0, 0)
    /\ authConfig = NoAuthConfig
    /\ limiter = NewLoginLimiter
    /\ req = [w \in Workers |-> NoRequest]
    /\ upd = [w \in Workers |-> NoUpdateCall]

NextFields ==
    \/ \E params \in FieldCreateInputs : CreateGroup(params)
    \/ \E ok \in BOOLEAN : CreateRow(ok)
    \/ \E ok \in BOOLEAN : CreateCommit(ok)
    \/ \E ok \in BOOLEAN : CreateInvalidate(ok)
    \/ \E id \in DOMAIN groups \cup {nextGroupID}, params \in FieldUpdateInputs :
          UpdateGroup(id, params, FALSE)
    \/ \E ok \in BOOLEAN : UpdateSave(ok)
    \/ \E ok \in BOOLEAN : UpdateCommit(ok)
    \/ \E ok \in BOOLEAN : UpdateInvalidate(ok)

SpecFields == InitFields /\ [][NextFields]_vars

\* the group calls on a database that holds the standard group "a" and the
\* aggregate group "h", which may use "a" as a sub-group: updates of the
\* channel type, the validation endpoint, the group type and the model
\* redirect rules, and creations with and without model redirect rules
SubCreateInputs ==
    {[BaseCreate EXCEPT !.Name = "k", !.GroupType = "aggregate", !.ModelRedirectRules = r] :
        r \in {Nil, Ptr({<<"m", "n">>})}}
        \cup {[BaseCreate EXCEPT !.Name = "g", !.ModelRedirectRules = Ptr({<<"m", "n">>})]}

SubUpdateInputs ==
    {[NoUpdate EXCEPT !.ChannelType = Ptr(c)] : c \in {" openai ", "gemini", "bogus"}}
        \cup {[NoUpdate EXCEPT !.ValidationEndpoint = Ptr(v)] : v \in {" ", "/v1/models", "v1"}}
        \cup {[NoUpdate EXCEPT !.ChannelType = Ptr("openai"), !.ValidationEndpoint = Ptr("")]}
        \cup {[NoUpdate EXCEPT !.GroupType = Ptr(t)] : t \in {"standard", "aggregate"}}
        \cup {[NoUpdate EXCEPT !.ModelRedirectRules = Ptr(r)] : r \in {{}, {<<"m", "n">>}}}

InitSub ==
    /\ now = 0
    /\ groups = (1 :> [Name |-> "a", GroupType |-> "standard",
                       Upstreams |-> UpstreamOK.defs, ChannelType |-> "openai",
                       TestModel |-> "m", ValidationEndpoint |-> "",
                       ModelRedirectRules |-> {}, Config |-> NoLimits,
                       HeaderRules |-> <<>>])
                @@ (2 :> [Name |-> "h", GroupType |-> "aggregate",
                          Upstreams |-> <<>>, ChannelType |-> "openai",
                          TestModel |-> "-", ValidationEndpoint |-> "",
                          ModelRedirectRules |-> {}, Config |-> NoLimits,
                          HeaderRules |-> <<>>])
    /\ hourlyStats = {}
    /\ monthlyStats = {}
    /\ rl = NoCall
    /\ inc = [w \in Workers |-> Idle]
    /\ incLog = EmptyBag
    /\ apiKeys = {}
    /\ subGroups \in SUBSET {[group_id |-> 2, sub_group_id |-> 1]}
    /\ store = [g \in 1..MaxGroupID |-> {}]
    /\ nextKeyID = 1
    /\ invalidations = 0
    /\ del = NoDelete
    /\ call = NoGroupCall
    /\ nextGroupID = 3
    /\ app = NewApp(FALSE, 0, 0)
    /\ authConfig = NoAuthConfig
    /\ limiter = NewLoginLimiter
    /\ req = [w \in Workers |-> NoRequest]
    /\ upd = [w \in Workers |-> NoUpdateCall]

NextSub ==
    \/ \E params \in SubCreateInputs : CreateGroup(params)
    \/ \E ok \in BOOLEAN : CreateRow(ok)
    \/ \E ok \in BOOLEAN : CreateCommit(ok)
    \/ \E ok \in BOOLEAN : CreateInvalidate(ok)
    \/ \E id \in DOMAIN groups, params \in SubUpdateInputs, countErr \in BOOLEAN :
          UpdateGroup(id, params, countErr)
    \/ \E ok \in BOOLEAN : UpdateSave(ok)
    \/ \E ok \in BOOLEAN : UpdateCommit(ok)
    \/ \E ok \in BOOLEAN : UpdateInvalidate(ok)
    \/ \E id \in DOMAIN groups, namesOk \in BOOLEAN : CopyGroup(id, "none", namesOk)
    \/ \E ok \in BOOLEAN : CopyRow(ok)
    \/ \E ok \in BOOLEAN : CopyCommit(ok)
    \/ \E ok \in BOOLEAN : CopyInvalidate(ok)

SpecSub == InitSub /\ [][NextSub]_vars

\* two requests, each with one UpdateGroup call, on a database that holds
\* the standard group "a"; a call supplies one field, or none
ConcurrentUpdateInputs ==
    {NoUpdate,
     [NoUpdate EXCEPT !.Name = Ptr(" b ")],
     [NoUpdate EXCEPT !.Name = Ptr("B")],
     [NoUpdate EXCEPT !.HasTestModel = TRUE, !.TestModel = "n"],
     [NoUpdate EXCEPT !.ValidationEndpoint = Ptr("/v1/models")],
     [NoUpdate EXCEPT !.HeaderRules = Ptr(<<HeaderRule("x-a", "1", "set")>>)]}

InitConcurrent ==
    /\ now = 0
    /\ groups = (1 :> [Name |-> "a", GroupType |-> "standard",
                       Upstreams |-> UpstreamOK.defs, ChannelType |-> "openai",
                       TestModel |-> "m", ValidationEndpoint |-> "",
                       ModelRedirectRules |-> {}, Config |-> NoLimits,
                       HeaderRules |-> <<>>])
    /\ hourlyStats = {}
    /\ monthlyStats = {}
    /\ rl = NoCall
    /\ inc = [w \in Workers |-> Idle]
    /\ incLog = EmptyBag
    /\ InitNoKeys
    /\ InitElsewhere

NextConcurrent ==
    \/ \E w \in Workers, id \in GroupIDs, params \in ConcurrentUpdateInputs :
          ConcurrentUpdateGroup(w, id, params)
    \/ \E w \in Workers, ok \in BOOLEAN : ConcurrentUpdateSave(w, ok)
    \/ \E w \in Workers, ok \in BOOLEAN : ConcurrentUpdateCommit(w, ok)
    \/ \E w \in Workers : ConcurrentUpdateInvalidate(w)

SpecConcurrent == InitConcurrent /\ [][NextConcurrent]_vars

\* one instance from its construction on: Start, the servers and their
\* requests, Stop; the KV store holds a stale key when the instance starts
InitApp ==
    /\ now = 0
    /\ groups = (1 :> [GroupType |-> "standard", Config |-> NoLimits])
    /\ hourlyStats = {}
    /\ monthlyStats = {}
    /\ rl = NoCall
    /\ inc = [w \in Workers |-> Idle]
    /\ incLog = EmptyBag
    /\ apiKeys = {[id |-> 1, group_id |-> 1]}
    /\ subGroups = {}
    /\ store = (1 :> {2}) @@ (2 :> {})
    /\ nextKeyID = 3
    /\ invalidations = 0
    /\ del = NoDelete
    /\ call = NoGroupCall
    /\ nextGroupID = 2
    /\ \E isMaster \in BOOLEAN, proxyPort \in {0, 1}, timeout \in 0..MaxShutdownTimeout :
          app = NewApp(isMaster, proxyPort, timeout)
    /\ authConfig = NoAuthConfig
    /\ limiter = NewLoginLimiter
    /\ req = [w \in Workers |-> NoRequest]
    /\ upd = [w \in Workers |-> NoUpdateCall]

NextApp ==
    \/ \E ok \in BOOLEAN : StartStep(ok)
    \/ \E s \in Servers, ok \in BOOLEAN : ListenAndServe(s, ok)
    \/ \E s \in Servers : Accept(s)
    \/ \E s \in Servers : Finish(s)
    \/ StopBegin
    \/ \E s \in Servers : Shutdown(s)
    \/ \E s \in Servers : ShutdownReturns(s)
    \/ \E s \in Servers : Close(s)
    \/ StopServices
    \/ \E service \in stoppableServices(app) : ServiceStopped(service)
    \/ StopSelect
    \/ StopTick

SpecApp == InitApp /\ [][NextApp]_vars

\* concurrent Login requests and Reset while time passes; the configuration
\* asks for at least one failed attempt
InitLogin ==
    /\ now = 0
    /\ groups = (1 :> [GroupType |-> "standard", Config |-> NoLimits])
    /\ hourlyStats = {}
    /\ monthlyStats = {}
    /\ rl = NoCall
    /\ inc = [w \in Workers |-> Idle]
    /\ incLog = EmptyBag
    /\ apiKeys = {}
    /\ subGroups = {}
    /\ store = (1 :> {}) @@ (2 :> {})
    /\ nextKeyID = 1
    /\ invalidations = 0
    /\ del = NoDelete
    /\ call = NoGroupCall
    /\ nextGroupID = 2
    /\ app = NewApp(FALSE, 0, 0)
    /\ \E attempts \in 1..MaxAttempts, duration \in 0..MaxLockout :
          authConfig = [Key |-> "secret", MaxFailedAttempts |-> attempts,
                        LockoutDuration |-> duration]
    /\ limiter = NewLoginLimiter
    /\ req = [w \in Workers |-> NoRequest]
    /\ upd = [w \in Workers |-> NoUpdateCall]

NextLogin ==
    \/ \E w \in Workers, bound \in BOOLEAN, AuthKey \in {"secret", "wrong"} :
          Login(w, bound, AuthKey)
    \/ \E w \in Workers : LoginCompare(w)
    \/ Reset
    \/ Tick

SpecLogin == InitLogin /\ [][NextLogin]_vars

\* =================================================================== claims
\* the group's expires_at is a well-formed time and the time t is after it
ExpiredAt(g, t) ==
    LET e == groups[g].Config.ExpiresAt
    IN e # Nil /\ e[1].kind = "ts" /\ t > e[1].t

\* the rows of the clock hour / calendar month that holds the time t
RowsOfHour(g, t) ==
    {r \in hourlyStats : r.group_id = g /\ r.time <= t /\ t < r.time + TicksPerHour}
RowsOfMonth(g, t) ==
    {r \in monthlyStats : r.group_id = g /\ r.month <= t
                          /\ t < r.month + HoursPerMonth * TicksPerHour}

StartOfNextHour(t) == ((t \div TicksPerHour) + 1) * TicksPerHour
StartOfNextMonth(t) ==
    ((t \div (HoursPerMonth * TicksPerHour)) + 1) * (HoursPerMonth * TicksPerHour)

Denied(ret, reason) == ret # Nil /\ ret[1].Reason = reason

\* C1: for a non-expired group with max_requests_per_hour = L > 0 whose row of
\* the current clock hour counts L requests (success_count + failure_count =
\* L), a CheckRateLimit call whose reads succeed denies with reason
\* hourly_limit, Limit = L and ResetAt = the start of the next hour.
C1_HourlyLimitDenies ==
    [][\A g \in GroupIDs :
         (/\ CheckRateLimit(g, {})
          /\ g \in DOMAIN groups
          /\ ~ExpiredAt(g, now)
          /\ groups[g].Config.MaxRequestsPerHour # Nil
          /\ groups[g].Config.MaxRequestsPerHour[1] > 0
          /\ \E r \in RowsOfHour(g, now) :
                r.success_count + r.failure_count = groups[g].Config.MaxRequestsPerHour[1])
         => /\ Denied(rl'.ret, "hourly_limit")
            /\ rl'.ret[1].Limit = groups[g].Config.MaxRequestsPerHour[1]
            /\ rl'.ret[1].ResetAt = StartOfNextHour(now)]_vars

\* C1 witness: a call has been denied for the hourly limit 2, reached in the
\* second half of an hour
C1_Witness ==
    /\ Denied(rl.ret, "hourly_limit")
    /\ rl.ret[1].Limit = 2 /\ rl.ret[1].Used = 2
    /\ rl.ret[1].ResetAt = now + 1

\* C2: when expires_at is a time and now is after it, CheckRateLimit denies
\* with reason expired and ResetAt = expires_at, whatever the limits, the
\* counters and the outcome of the reads of the counters; when now is not
\* after expires_at, no call returns reason expired.
C2_ExpiryFirst ==
    [][\A g \in GroupIDs, errs \in ReadErrs :
         CheckRateLimit(g, errs) =>
            IF g \in DOMAIN groups /\ "group" \notin errs /\ ExpiredAt(g, now)
            THEN /\ Denied(rl'.ret, "expired")
                 /\ rl'.ret[1].ResetAt = groups[g].Config.ExpiresAt[1].t
            ELSE ~Denied(rl'.ret, "expired")]_vars

\* C2 witness: an expired group whose hourly and monthly limits are both
\* reached has been denied as expired
C2_Witness ==
    /\ Denied(rl.ret, "expired")
    /\ LET c == groups[rl.groupID].Config
       IN /\ c.MaxRequestsPerHour # Nil /\ c.MaxRequestsPerHour[1] > 0
          /\ c.MaxRequestsPerMonth # Nil /\ c.MaxRequestsPerMonth[1] > 0
          /\ \E r \in RowsOfHour(rl.groupID, now) :
                r.success_count + r.failure_count >= c.MaxRequestsPerHour[1]
          /\ \E r \in RowsOfMonth(rl.groupID, now) :
                r.request_count >= c.MaxRequestsPerMonth[1]

\* the IncrementGroupMonthlyStat calls for the group in the month of the time t
\* that have returned
CallsReturned(g, t, errSet) ==
    LET m == (t \div (HoursPerMonth * TicksPerHour)) * (HoursPerMonth * TicksPerHour)
        n(ok, err) == CopiesIn([groupID |-> g, month |-> m,
                                isSuccess |-> ok, err |-> err], incLog)
    IN (IF FALSE \in errSet THEN n(TRUE, FALSE) + n(FALSE, FALSE) ELSE 0)
       + (IF TRUE \in errSet THEN n(TRUE, TRUE) + n(FALSE, TRUE) ELSE 0)

PassesHourly(g, t) ==
    LET L == groups[g].Config.MaxRequestsPerHour
    IN ~(L # Nil /\ L[1] > 0
         /\ \E r \in RowsOfHour(g, t) : r.success_count + r.failure_count >= L[1])

\* C3: for a non-expired group with max_requests_per_month = L > 0 that passes
\* the hourly check, after k IncrementGroupMonthlyStat calls made one after
\* another in the current month, CheckRateLimit denies with reason
\* monthly_limit, Limit = L, Used = k, ResetAt = the first of the next month
\* if and only if k >= L (and allows otherwise).
C3_MonthlyLimitIff ==
    [][\A g \in GroupIDs :
         (/\ CheckRateLimit(g, {})
          /\ g \in DOMAIN groups
          /\ ~ExpiredAt(g, now)
          /\ PassesHourly(g, now)
          /\ groups[g].Config.MaxRequestsPerMonth # Nil
          /\ groups[g].Config.MaxRequestsPerMonth[1] > 0)
         => LET L == groups[g].Config.MaxRequestsPerMonth[1]
                k == CallsReturned(g, now, {FALSE, TRUE})
            IN IF k >= L
               THEN rl'.ret = Ptr([Reason |-> "monthly_limit", Limit |-> L, Used |-> k,
                                   ResetAt |-> StartOfNextMonth(now)])
               ELSE rl'.ret = Nil]_vars

\* C3 witness: a call has been denied for the monthly limit after more calls
\* than the limit, in the second month
C3_Witness ==
    /\ Denied(rl.ret, "monthly_limit")
    /\ rl.ret[1].Used > rl.ret[1].Limit
    /\ rl.ret[1].ResetAt = 2 * HoursPerMonth * TicksPerHour

\* C4: with max_requests_per_hour 0 or absent no call returns hourly_limit, and
\* with max_requests_per_month 0 or absent no call returns monthly_limit,
\* whatever the counters hold.
C4_ZeroDisables ==
    [][\A g \in GroupIDs, errs \in ReadErrs :
         CheckRateLimit(g, errs) =>
            /\ (g \notin DOMAIN groups
                \/ groups[g].Config.MaxRequestsPerHour \in {Nil, Ptr(0)})
               => ~Denied(rl'.ret, "hourly_limit")
            /\ (g \notin DOMAIN groups
                \/ groups[g].Config.MaxRequestsPerMonth \in {Nil, Ptr(0)})
               => ~Denied(rl'.ret, "monthly_limit")]_vars

\* C4 witness: a group with hourly limit 0 and no monthly limit has been
\* allowed with counted requests in the current hour and month
C4_Witness ==
    /\ rl.called /\ rl.groupID \in DOMAIN groups /\ rl.ret = Nil
    /\ groups[rl.groupID].Config.MaxRequestsPerHour = Ptr(0)
    /\ groups[rl.groupID].Config.MaxRequestsPerMonth = Nil
    /\ groups[rl.groupID].Config.ExpiresAt = Nil
    /\ RowsOfHour(rl.groupID, now) # {}
    /\ RowsOfMonth(rl.groupID, now) # {}

\* C5: a CheckRateLimit call, allowing or denying, leaves every
\* GroupHourlyStat row, every GroupMonthlyStat row and the group rows as they
\* were.
C5_CheckNeverWrites ==
    [][\A g \in GroupIDs, errs \in ReadErrs :
         CheckRateLimit(g, errs) => UNCHANGED <<groups, hourlyStats, monthlyStats>>]_vars

\* C5 witness: a call has been denied for the hourly limit and the row of the
\* hour still counts exactly the limit
C5_Witness ==
    /\ Denied(rl.ret, "hourly_limit")
    /\ \E r \in RowsOfHour(rl.groupID, now) :
          r.success_count + r.failure_count = rl.ret[1].Limit

\* the months a call can fall in
Months == {(t \div (HoursPerMonth * TicksPerHour)) * (HoursPerMonth * TicksPerHour) :
              t \in 0..MaxTime}

\* C6: IncrementGroupMonthlyStat is an atomic upsert: whatever the
\* interleaving of concurrent calls for one (group, month), also with no row
\* at the start, every call returns without error, and once all have returned
\* exactly one row exists for the (group, month), with request_count = the
\* number of calls.
C6_AtomicUpsert ==
    /\ \A rec \in BagToSet(incLog) : ~rec.err
    /\ (\A w \in Workers : inc[w].pc = "idle") =>
          \A g \in GroupIDs, m \in Months :
             LET n == CallsReturned(g, m, {FALSE, TRUE})
                 rows == {r \in monthlyStats : r.group_id = g /\ r.month = m}
             IN n > 0 => /\ Cardinality(rows) = 1
                         /\ \A r \in rows : r.request_count = n

\* the sums of the three counters over the rows of one (group, month) of a
\* table
BucketTotals(stats, g, m) ==
    LET rows == {r \in stats : r.group_id = g /\ r.month = m}
        Sum[S \in SUBSET rows] ==
            IF S = {} THEN <<0, 0, 0>>
            ELSE LET r == CHOOSE x \in S : TRUE
                     rest == Sum[S \ {r}]
                 IN <<rest[1] + r.request_count, rest[2] + r.success_count,
                      rest[3] + r.failure_count>>
    IN Sum[rows]

\* C7: every GroupMonthlyStat row has success_count + failure_count =
\* request_count, and each call that returns without error raises the
\* request_count of its (group, month) by exactly 1 and exactly one of
\* success_count (isSuccess) and failure_count (not isSuccess) by 1, and
\* touches no other row.
C7_MonthlyCountersAgree ==
    /\ [](\A r \in monthlyStats : r.success_count + r.failure_count = r.request_count)
    /\ [][\A rec \in BagToSet(incLog') :
            (CopiesIn(rec, incLog') > CopiesIn(rec, incLog) /\ ~rec.err) =>
               LET old == BucketTotals(monthlyStats, rec.groupID, rec.month)
                   new == BucketTotals(monthlyStats', rec.groupID, rec.month)
               IN /\ new[1] = old[1] + 1
                  /\ new[2] = old[2] + (IF rec.isSuccess THEN 1 ELSE 0)
                  /\ new[3] = old[3] + (IF rec.isSuccess THEN 0 ELSE 1)
                  /\ {r \in monthlyStats' : r.group_id # rec.groupID \/ r.month # rec.month}
                       = {r \in monthlyStats : r.group_id # rec.groupID \/ r.month # rec.month}
       ]_vars

\* C7 witness: a row that has counted one successful and one failed request,
\* with both calls returned without error
C7_Witness ==
    /\ \E r \in monthlyStats :
          r.request_count = 2 /\ r.success_count = 1 /\ r.failure_count = 1
    /\ \A rec \in BagToSet(incLog) : ~rec.err
    /\ \A w \in Workers : inc[w].pc = "idle"

\* the api_keys rows of a group and the edges that touch it, in given tables
KeysOf(keys, g) == {r \in keys : r.group_id = g}
EdgesOf(edges, g) == {e \in edges : e.group_id = g \/ e.sub_group_id = g}

\* C8: when RemoveKeysFromStore fails during DeleteGroup(G), the call returns
\* an error and nothing of the transaction is committed: the group row, every
\* api_keys row of G and every edge that touches G are in the database after
\* the call as before it, and Invalidate has not been called.
C8_KVFailureRollsBack ==
    [][DeleteFromStore(FALSE) =>
          /\ del'.pc = "done" /\ del'.ret \notin {"", "ok"}
          /\ del.id \in DOMAIN groups'
          /\ groups' = groups
          /\ KeysOf(apiKeys', del.id) = KeysOf(apiKeys, del.id)
          /\ del.keyIDs \subseteq {r.id : r \in KeysOf(apiKeys', del.id)}
          /\ EdgesOf(subGroups', del.id) = EdgesOf(subGroups, del.id)
          /\ del.txEdges \subseteq subGroups'
          /\ invalidations' = invalidations]_vars

\* C8 witness: DeleteGroup of a group with keys and an edge has returned the
\* store error, after the transaction had deleted the keys and the edge
C8_Witness ==
    /\ del.pc = "done" /\ del.ret = "cache_error"
    /\ del.keyIDs # {}
    /\ KeysOf(apiKeys, del.id) # {}
    /\ EdgesOf(subGroups, del.id) # {}
    /\ del.id \in DOMAIN groups
    /\ invalidations = 0

AllRemoved(g) ==
    /\ g \notin DOMAIN groups
    /\ KeysOf(apiKeys, g) = {}
    /\ store[g] = {}

AllRemain(g, keyIDs) ==
    /\ g \in DOMAIN groups
    /\ \A k \in keyIDs : [id |-> k, group_id |-> g] \in apiKeys /\ k \in store[g]

\* C9: DeleteGroup(G) is all-or-nothing across the database and the key pool:
\* after a call that succeeded, or failed at the store removal or at Commit,
\* either G's group row, G's api_keys rows and G's key ids in the store are all
\* gone, or all of them are still there.
C9_AllOrNothing ==
    (del.pc = "done" /\ del.ret \in {"ok", "cache_error", "db_error"})
       => AllRemoved(del.id) \/ AllRemain(del.id, del.keyIDs)

\* C10: after DeleteGroup(G) has returned success no key id of G is left in the
\* key pool, also when keys were added to G between the call's read of G's
\* key ids and its transactional delete of the api_keys rows.
C10_NoStaleKeyInStore ==
    (del.pc = "done" /\ del.ret = "ok") => store[del.id] = {}


\* ---- C11: a CreateGroup, UpdateGroup, DeleteGroup or CopyGroup call that
\* succeeds calls Invalidate exactly once, after its transaction has
\* committed and right before it returns; a call that fails never calls it;
\* a failing Invalidate is only logged.  As a property of every step: the
\* number of Invalidate calls changes only by one, in the step that makes a
\* call return nil; a call returns nil only by that step; a call comes to its
\* Invalidate only by the Commit that applied its write; and the step after
\* Commit returns nil whether Invalidate fails or not.
GroupCallInvalidates ==
    call.pc = "invalidate" /\ call'.pc = "done" /\ call'.ret = "ok" /\ del' = del

DeleteInvalidates ==
    del.pc = "invalidate" /\ del'.pc = "done" /\ del'.ret = "ok" /\ call' = call

C11_InvalidateOncePerSuccess ==
    [][/\ invalidations' # invalidations =>
             /\ invalidations' = invalidations + 1
             /\ GroupCallInvalidates \/ DeleteInvalidates
       /\ (call' # call /\ call'.pc = "done" /\ call'.ret = "ok") =>
             call.pc = "invalidate" /\ invalidations' = invalidations + 1
       /\ (del' # del /\ del'.pc = "done" /\ del'.ret = "ok") =>
             del.pc = "invalidate" /\ invalidations' = invalidations + 1
       /\ (call' # call /\ call'.pc = "invalidate") =>
             call.pc = "commit" /\ groups' = Committed(call)
       /\ (del' # del /\ del'.pc = "invalidate") =>
             del.pc = "commit" /\ del.id \notin DOMAIN groups'
       /\ (call' # call /\ call.pc = "invalidate") => call'.pc = "done" /\ call'.ret = "ok"
       /\ (del' # del /\ del.pc = "invalidate") => del'.pc = "done" /\ del'.ret = "ok"
      ]_vars

\* a CopyGroup and a DeleteGroup have both returned nil, the Invalidate of the
\* copy having failed, and Invalidate has been called twice
C11_Witness ==
    /\ call.pc = "done" /\ call.op = "copy" /\ call.ret = "ok" /\ call.invalidateErr
    /\ del.pc = "done" /\ del.ret = "ok"
    /\ invalidations = 2

\* ---- C12: after any sequence of CreateGroup, UpdateGroup and CopyGroup
\* calls every group row has a name that matches ^[a-z0-9_-]{1,100}$ and no
\* two rows share a name.
C12_NamesValidAndUnique ==
    \A g \in DOMAIN groups :
       /\ isValidGroupName(groups[g].Name)
       /\ \A h \in DOMAIN groups \ {g} : groups[h].Name # groups[g].Name

\* ---- C13: after any sequence of CreateGroup and UpdateGroup calls every
\* stored standard group has a non-empty upstreams list with every weight
\* >= 0 and one weight > 0, and every stored aggregate group has an empty
\* upstreams list.
C13_UpstreamsByType ==
    \A g \in DOMAIN groups :
       /\ groups[g].GroupType = "standard" =>
             /\ Len(groups[g].Upstreams) > 0
             /\ \A i \in 1..Len(groups[g].Upstreams) : groups[g].Upstreams[i].weight >= 0
             /\ \E i \in 1..Len(groups[g].Upstreams) : groups[g].Upstreams[i].weight > 0
       /\ groups[g].GroupType = "aggregate" => groups[g].Upstreams = <<>>

\* ---- C14: after any sequence of CreateGroup and UpdateGroup calls every
\* stored standard group has a non-empty test_model and every stored
\* aggregate group has the test_model "-".
C14_TestModelByType ==
    \A g \in DOMAIN groups :
       /\ groups[g].GroupType = "standard" => groups[g].TestModel # ""
       /\ groups[g].GroupType = "aggregate" => groups[g].TestModel = "-"

\* the rules of a request that have a key, in the order of the request, each
\* with the canonical form of its trimmed key
HasKey(rule) == TrimSpace(rule.Key) # ""
KeptRules(rules) ==
    LET kept == SelectSeq(rules, HasKey)
    IN [i \in 1..Len(kept) |->
          [kept[i] EXCEPT !.Key = CanonicalHeaderKey(TrimSpace(kept[i].Key))]]

\* two rules of the request have keys that canonicalise to the same header
DuplicateKeys(rules) ==
    \E i, j \in 1..Len(rules) :
       /\ i < j /\ HasKey(rules[i]) /\ HasKey(rules[j])
       /\ CanonicalHeaderKey(TrimSpace(rules[i].Key)) = CanonicalHeaderKey(TrimSpace(rules[j].Key))

\* ---- C15: the header rules that CreateGroup and UpdateGroup store are the
\* rules of the request in the order of the request with canonicalised
\* keys, no stored list has two rules with the same canonical key, and a
\* request (to create a group, or to update a stored group) in which two
\* keys canonicalise to the same header returns a validation error and
\* leaves the groups table as it is.
C15_HeaderRulesNormalised ==
    /\ [](\A g \in DOMAIN groups :
             \A i, j \in 1..Len(groups[g].HeaderRules) :
                /\ CanonicalHeaderKey(groups[g].HeaderRules[i].Key) = groups[g].HeaderRules[i].Key
                /\ i # j => groups[g].HeaderRules[i].Key # groups[g].HeaderRules[j].Key)
    /\ [][/\ \A params \in HeaderRuleCreateInputs :
                GroupCallIdle /\ call'.op = "create" /\ CreateGroup(params) =>
                   /\ DuplicateKeys(params.HeaderRules) =>
                         call'.pc = "done" /\ call'.ret = "validation" /\ groups' = groups
                   /\ call'.pc = "create" =>
                         call'.group[1].HeaderRules = KeptRules(params.HeaderRules)
          /\ \A id \in DOMAIN groups, params \in HeaderRuleUpdateInputs :
                GroupCallIdle /\ call'.op = "update" /\ call'.id = id
                   /\ UpdateGroup(id, params, FALSE) =>
                   /\ DuplicateKeys(params.HeaderRules[1]) =>
                         call'.pc = "done" /\ call'.ret = "validation" /\ groups' = groups
                   /\ call'.pc = "save" =>
                         call'.group[1].HeaderRules = KeptRules(params.HeaderRules[1])
          /\ \A ok \in BOOLEAN :
                call.pc = "commit" /\ (CreateCommit(ok) \/ UpdateCommit(ok)) =>
                   IF ok THEN /\ groups'[call.id].HeaderRules = call.group[1].HeaderRules
                              /\ \A g \in DOMAIN groups \ {call.id} : groups'[g] = groups[g]
                   ELSE groups' = groups
          /\ groups' # groups => \E ok \in BOOLEAN : CreateCommit(ok) \/ UpdateCommit(ok)
         ]_vars

\* a group is stored with two rules in the order of the request, which is
\* not the order of the keys, and an update of it has been rejected
C15_Witness ==
    \E g \in DOMAIN groups :
       /\ Len(groups[g].HeaderRules) = 2
       /\ groups[g].HeaderRules[1].Key = "X-B"
       /\ groups[g].HeaderRules[2].Key = "X-A"
       /\ call.op = "update" /\ call.id = g /\ call.pc = "done" /\ call.ret = "validation"

\* ---- C16: every header rule stored in a group by CreateGroup or
\* UpdateGroup has the action set or remove.
C16_ActionSetOrRemove ==
    \A g \in DOMAIN groups :
       \A i \in 1..Len(groups[g].HeaderRules) :
          groups[g].HeaderRules[i].Action \in {"set", "remove"}

\* Start has completed the call c; the place of c among the completed calls
Called(c) == \E i \in 1..Len(app.done) : app.done[i] = c
Pos(c) == CHOOSE i \in 1..Len(app.done) : app.done[i] = c

MasterOnlyCalls ==
    {"storage.Clear", "db.AutoMigrate", "db.MigrateDatabase", "keyPoolProvider.LoadKeysFromDB",
     "requestLogService.Start", "logCleanupService.Start", "cronChecker.Start"}

\* ---- C17: an instance that is not master never clears the store, never
\* migrates the database, never calls LoadKeysFromDB and never starts the
\* request-log service, the log-cleanup service or the cron checker (its
\* store stays as it was); a master has done all of these when Start has
\* returned success (its store then holds the keys of the database).
C17_MasterOnlySteps ==
    /\ [](/\ ~app.IsMaster =>
                /\ \A c \in MasterOnlyCalls : ~Called(c)
                /\ app.started = {}
          /\ app.IsMaster /\ app.ret = "ok" =>
                /\ \A c \in MasterOnlyCalls : Called(c)
                /\ store = LoadKeysFromDB)
    /\ [][/\ ~app.IsMaster => store' = store
          /\ app.IsMaster /\ app.ret # "ok" /\ app'.ret = "ok" =>
                app'.started = {"requestLogService", "logCleanupService", "cronChecker"}
         ]_vars

\* an instance that is not master has returned from Start with success and
\* serves, the stale key still in its store
C17_Witness ==
    /\ ~app.IsMaster /\ app.ret = "ok"
    /\ app.servers["httpServer"].state = "serving"
    /\ store[1] = {2}

\* b is called only after a
Before(a, b) == Called(b) => Called(a) /\ Pos(a) < Pos(b)

\* ---- C18: on a master Start runs store clear, database migration,
\* settings initialisation, LoadKeysFromDB and the start of the background
\* services in this order; a server exists (and so listens) only after
\* LoadKeysFromDB (on a master) and groupManager.Initialize have completed;
\* a Start step whose call fails returns an error, and when Start has
\* returned an error no background service has been started and no server
\* exists.
C18_StartOrder ==
    /\ [](/\ app.IsMaster =>
                /\ Before("storage.Clear", "db.AutoMigrate")
                /\ Before("db.AutoMigrate", "db.MigrateDatabase")
                /\ Before("db.MigrateDatabase", "settingsManager.EnsureSettingsInitialized")
                /\ Before("settingsManager.EnsureSettingsInitialized",
                          "settingsManager.Initialize")
                /\ Before("settingsManager.Initialize", "keyPoolProvider.LoadKeysFromDB")
                /\ \A c \in {"requestLogService.Start", "logCleanupService.Start",
                             "cronChecker.Start"} :
                      Before("keyPoolProvider.LoadKeysFromDB", c)
          /\ \A s \in Servers :
                app.servers[s].state # "nil" =>
                   /\ Called("groupManager.Initialize")
                   /\ app.IsMaster => Called("keyPoolProvider.LoadKeysFromDB")
          /\ app.ret = "error" =>
                /\ app.started = {}
                /\ \A c \in {"requestLogService.Start", "logCleanupService.Start",
                             "cronChecker.Start"} : ~Called(c)
                /\ \A s \in Servers : app.servers[s].state = "nil")
    /\ [][\A ok \in BOOLEAN :
             StartStep(ok) /\ app'.done = app.done =>
                app'.ret = "error" /\ app'.pc = "failed"]_vars

\* on a master LoadKeysFromDB has failed: Start has returned the error after
\* the six calls before it
C18_Witness ==
    /\ app.IsMaster /\ app.ret = "error"
    /\ Len(app.done) = 6
    /\ app.done[6] = "settingsManager.Initialize"

\* the step is the return of Shutdown with an error for the server s
TimesOut(s) == app.servers[s].state = "shutdown" /\ app'.servers[s].state = "timedout"

\* what C19 says of Stop for the configured timeout of the instance
ShutdownBudget ==
    /\ \A s \in Servers :
          /\ TimesOut(s) => app.elapsed = app.GracefulShutdownTimeout - 5
          /\ app.servers[s].state = "shutdown" /\ app.servers[s].inflight > 0 =>
                app.elapsed <= app.GracefulShutdownTimeout - 5
          /\ ~app.servers[s].closed /\ app'.servers[s].closed =>
                app.servers[s].state = "timedout"
    /\ app.stopCalled = {} /\ app'.stopCalled # {} =>
          /\ \A s \in Servers : app.servers[s].state \in {"nil", "down"}
          /\ app.elapsed + 5 <= app.GracefulShutdownTimeout

\* ---- C19 as stated: for every GracefulShutdownTimeout >= 0, Stop lets a
\* server drain for the timeout minus 5 seconds, force-closes a server only
\* after its Shutdown has returned an error, and calls Stop on the
\* background services only after both servers are down, with at least 5
\* seconds of the total timeout left.
C19_ReservedForEveryTimeout == [][ShutdownBudget]_vars

\* ---- C19: for every GracefulShutdownTimeout >= 5, Stop lets a server
\* drain for the timeout minus 5 seconds, force-closes a server only after
\* its Shutdown has returned an error, and calls Stop on the background
\* services only after both servers are down, with at least 5 seconds of
\* the total timeout left.
C19_ReservedFromFiveSeconds ==
    [][app.GracefulShutdownTimeout >= 5 => ShutdownBudget]_vars

\* with a timeout of 6 seconds a server was force-closed after 1 second and
\* the Stop of the background services has been called
C19_Witness ==
    /\ app.GracefulShutdownTimeout = 6
    /\ app.servers["httpServer"].closed
    /\ app.stopCalled # {}
    /\ app.elapsed = 1

\* the limiter is locked
Locked == limiter.lockoutUntil > now

\* ---- C20: the failed Login attempt that brings failedAttempts (the failed
\* attempts since the last successful login or Reset) to MaxFailedAttempts
\* locks the limiter for LockoutDuration and is answered 429; while the
\* limiter is locked every Login request whose body binds is answered 429 by
\* CheckLogin, its key not compared and the limiter unchanged, even when
\* the key is correct; and the lock ends before its time only by a
\* request that had passed CheckLogin or by Reset.
C20_LockedAtThreshold ==
    [][/\ \A w \in Workers :
             /\ LoginCompare(w) /\ req[w].key # authConfig.Key
                   /\ limiter'.failedAttempts >= authConfig.MaxFailedAttempts =>
                   /\ req'[w].status = 429
                   /\ limiter'.lockoutUntil = now + authConfig.LockoutDuration
             /\ \A AuthKey \in {"secret", "wrong"} :
                   Locked /\ Login(w, TRUE, AuthKey) =>
                      /\ req'[w].pc = "done" /\ req'[w].status = 429
                      /\ req'[w].by = "CheckLogin" /\ ~req'[w].compared
                      /\ limiter' = limiter
       /\ Locked /\ limiter'.lockoutUntil # limiter.lockoutUntil =>
             Reset \/ \E w \in Workers : LoginCompare(w)
      ]_vars

\* the limiter is locked at the threshold and a request with the correct
\* key has been answered 429 by CheckLogin
C20_Witness ==
    /\ Locked
    /\ limiter.failedAttempts = authConfig.MaxFailedAttempts
    /\ authConfig.MaxFailedAttempts = 2
    /\ req[1].status = 429 /\ req[1].by = "RecordFailure"
    /\ req[2].status = 429 /\ req[2].by = "CheckLogin"
    /\ req[2].key = authConfig.Key

\* ---- C21: a successful login leaves the limiter as a new one, with
\* failedAttempts = 0 and lockoutUntil the zero time, and is answered 200;
\* so with MaxFailedAttempts > 1 the first failed attempt after it does not
\* lock, whatever failures came before it.
C21_SuccessResets ==
    [][\A w \in Workers :
          /\ LoginCompare(w) /\ req[w].key = authConfig.Key =>
                /\ limiter'.failedAttempts = 0
                /\ limiter'.lockoutUntil = ZeroTime
                /\ req'[w].status = 200
          /\ LoginCompare(w) /\ req[w].key # authConfig.Key
                /\ limiter.failedAttempts = 0 /\ authConfig.MaxFailedAttempts > 1 =>
                /\ req'[w].status = 401
                /\ limiter'.lockoutUntil = limiter.lockoutUntil
      ]_vars

\* a login has succeeded after a failed attempt and the limiter is as new
C21_Witness ==
    /\ req[1].status = 401 /\ req[1].by = "RecordFailure"
    /\ req[2].status = 200 /\ req[2].by = "RecordSuccess"
    /\ limiter = NewLoginLimiter

\* ---- C25: a lockout that has been set and not cleared by a successful
\* login or Reset leaves failedAttempts >= MaxFailedAttempts, also after it
\* has expired; the next failed attempt after the expiry is answered 429
\* and locks the limiter for a full LockoutDuration from then.
C25_ExpiryKeepsCounter ==
    /\ [](limiter.lockoutUntil # ZeroTime =>
             limiter.failedAttempts >= authConfig.MaxFailedAttempts)
    /\ [][\A w \in Workers :
             /\ limiter.lockoutUntil # ZeroTime /\ ~Locked
             /\ LoginCompare(w) /\ req[w].key # authConfig.Key
             => /\ req'[w].status = 429
                /\ limiter'.failedAttempts = limiter.failedAttempts + 1
                /\ limiter'.lockoutUntil = now + authConfig.LockoutDuration
         ]_vars

\* one client alone has failed MaxFailedAttempts + 1 times: its last
\* attempt came after the lockout of the attempt before had expired, and
\* has locked the limiter again
C25_Witness ==
    /\ req[2].pc = "idle"
    /\ req[1].status = 429 /\ req[1].by = "RecordFailure"
    /\ limiter.failedAttempts = authConfig.MaxFailedAttempts + 1
    /\ authConfig.LockoutDuration > 0
    /\ limiter.lockoutUntil = now + authConfig.LockoutDuration

\* ---- C26: a request that CheckLogin has allowed has its key compared also
\* when the limiter has been locked since: with the correct key it is
\* answered 200 and RecordSuccess clears the lockout, with a wrong key
\* failedAttempts goes beyond MaxFailedAttempts and lockoutUntil is set
\* again, LockoutDuration from now, which is not before the lockout it
\* replaces.
C26_CheckedRequestIgnoresLock ==
    [][\A w \in Workers :
          req[w].pc = "checked" /\ Locked /\ LoginCompare(w) =>
             /\ req'[w].compared
             /\ IF req[w].key = authConfig.Key
                THEN /\ req'[w].status = 200
                     /\ limiter'.lockoutUntil = ZeroTime
                     /\ limiter'.failedAttempts = 0
                ELSE /\ req'[w].status = 429
                     /\ limiter'.failedAttempts > authConfig.MaxFailedAttempts
                     /\ limiter'.lockoutUntil = now + authConfig.LockoutDuration
                     /\ limiter'.lockoutUntil >= limiter.lockoutUntil
      ]_vars

\* at time 0, so before any lockout can have expired, both requests have
\* failed and the counter is beyond the threshold
C26_Witness ==
    /\ now = 0
    /\ authConfig.LockoutDuration > 0
    /\ limiter.failedAttempts = authConfig.MaxFailedAttempts + 1
    /\ req[1].status = 429 /\ req[1].by = "RecordFailure"
    /\ req[2].status = 429 /\ req[2].by = "RecordFailure"

\* ---- C28: when DeleteGroup(G) has returned success no edge has G as its
\* parent or as its sub-group; the edges and the group row leave the
\* database in the one step of Commit, and nothing else takes a group or an
\* edge away, so in every committed state both ends of every edge are
\* groups that exist.
C28_NoEdgeToDeletedGroup ==
    /\ [](/\ \A e \in subGroups :
                e.group_id \in DOMAIN groups /\ e.sub_group_id \in DOMAIN groups
          /\ del.pc = "done" /\ del.ret = "ok" =>
                del.id \notin DOMAIN groups /\ EdgesOf(subGroups, del.id) = {})
    /\ [][/\ DeleteCommit(TRUE) =>
                del.id \notin DOMAIN groups' /\ EdgesOf(subGroups', del.id) = {}
          /\ subGroups' # subGroups \/ groups' # groups => DeleteCommit(TRUE)
         ]_vars

\* the transaction of DeleteGroup(1) has deleted the edge from the aggregate
\* group 2 to its sub-group 1 together with the group row, and is at Commit
C28_Witness ==
    /\ del.pc = "commit" /\ del.id = 1 /\ del.txGroup
    /\ del.txEdges = {[group_id |-> 2, sub_group_id |-> 1]}
    /\ del.txEdges \subseteq subGroups

\* C27: CheckRateLimit fails open. A call whose group row is missing or cannot
\* be read returns nil; a call on a group whose expires_at does not parse never
\* returns "expired"; a call that finds no hourly (monthly) row for the current
\* hour (month), or whose read of that row fails, never returns hourly_limit
\* (monthly_limit), whatever limit is configured.
C27_FailsOpen ==
    [][\A g \in GroupIDs, errs \in ReadErrs :
         (rl'.groupID = g /\ now' = now /\ CheckRateLimit(g, errs)) =>
            /\ (g \notin DOMAIN groups \/ "group" \in errs) => rl'.ret = Nil
            /\ (g \in DOMAIN groups
                /\ groups[g].Config.ExpiresAt # Nil
                /\ ParseInLocation(groups[g].Config.ExpiresAt[1]).err)
               => ~Denied(rl'.ret, "expired")
            /\ (HourlyRows(g, TruncateHour(now)) = {} \/ "hourly" \in errs)
               => ~Denied(rl'.ret, "hourly_limit")
            /\ (MonthlyRows(g, MonthStart(now)) = {} \/ "monthly" \in errs)
               => ~Denied(rl'.ret, "monthly_limit")]_vars

\* C27 witness: a group with an unparsable expires_at, an hourly and a monthly
\* limit and no statistics row at all has been allowed
C27_Witness ==
    /\ rl.called /\ rl.groupID \in DOMAIN groups /\ rl.ret = Nil
    /\ groups[rl.groupID].Config.ExpiresAt = Ptr(BadStr)
    /\ groups[rl.groupID].Config.MaxRequestsPerHour # Nil
    /\ groups[rl.groupID].Config.MaxRequestsPerHour[1] > 0
    /\ groups[rl.groupID].Config.MaxRequestsPerMonth # Nil
    /\ groups[rl.groupID].Config.MaxRequestsPerMonth[1] > 0
    /\ hourlyStats = {} /\ monthlyStats = {}

\* the background services Start has brought up: the two managers it
\* initialises and the services whose Start it has called
StartedByStart ==
    (IF Called("groupManager.Initialize") THEN {"groupManager"} ELSE {})
        \cup (IF Called("settingsManager.Initialize") THEN {"settingsManager"} ELSE {})
        \cup {StartedBy[c] : c \in {x \in DOMAIN StartedBy : Called(x)}}

ServersDown == \A s \in Servers : app.servers[s].state \in {"nil", "down"}

\* C24: once Stop has called the Stop of the background services, the services
\* it has called are exactly those Start brought up: the group manager and the
\* settings manager on every instance, the cron checker, the log cleanup and
\* the request-log service if and only if the instance is master.  The storage
\* is closed at most once, exactly once when Stop has returned, and the step
\* that closes it is taken with both HTTP servers down, after the Stop calls
\* were made, and with every Stop call returned or the context of the caller
\* done.
C24_StopsWhatStarted ==
    /\ [](/\ app.storageClosed = (IF app.pc = "exited" THEN 1 ELSE 0)
          /\ app.pc \in {"services", "exited"} =>
                /\ app.stopCalled = StartedByStart
                /\ {"groupManager", "settingsManager"} \subseteq app.stopCalled
                /\ \A m \in {"cronChecker", "logCleanupService", "requestLogService"} :
                      m \in app.stopCalled <=> app.IsMaster
          /\ app.pc \notin {"services", "exited"} => app.stopCalled = {})
    /\ [][app'.storageClosed # app.storageClosed =>
             /\ app.pc = "services"
             /\ ServersDown
             /\ app.stopping = {} \/ ctxDone(app)]_vars

\* C24 witness: Stop of a master has returned with the storage closed once,
\* the five services told to stop and the context done before all of them
\* had returned
C24_Witness ==
    /\ app.pc = "exited" /\ app.IsMaster /\ app.storageClosed = 1
    /\ Cardinality(app.stopCalled) = 5
    /\ app.stopping # {}

\* C30: an UpdateGroup call writes the groups table in one step only, its
\* successful Commit, and after that step it returns nil; so a call that
\* returns an error (unknown group, validation failure, failed Save, failed
\* Commit) has left every stored row, its own included, as it was.
C30_ErrorLeavesRow ==
    [][(call' # call /\ call'.op = "update") =>
          /\ groups' # groups => call.pc = "commit" /\ call'.pc = "invalidate"
          /\ (call'.pc = "done" /\ call'.ret # "ok") =>
                groups' = groups /\ call.pc # "invalidate"]_vars

\* C30 witness: an UpdateGroup of the stored group 1 has returned a database
\* error and the row is the one the database started with
C30_Witness ==
    /\ call.op = "update" /\ call.pc = "done" /\ call.ret = "db_error" /\ call.id = 1
    /\ 1 \in DOMAIN groups /\ groups[1].Name = "a"

\* an aggregate group uses the group as a sub-group
Referenced(id) == \E e \in subGroups : e.sub_group_id = id

\* the update would store another channel type or validation endpoint
ChangesCritical(group, params) ==
    \/ params.ChannelType # Nil /\ TrimSpace(params.ChannelType[1]) # group.ChannelType
    \/ /\ params.ValidationEndpoint # Nil
       /\ TrimSpace(params.ValidationEndpoint[1]) # group.ValidationEndpoint

\* C22: an UpdateGroup call on a non-aggregate group that an aggregate group
\* uses as a sub-group, with the count of those groups read, returns a
\* validation error and leaves the groups table as it was when it would change
\* the channel type or the validation endpoint; when it supplies the stored
\* channel type and the stored validation endpoint it goes on to the Save.
C22_ReferencedKeepsCritical ==
    [][\A id \in DOMAIN groups, params \in SubUpdateInputs :
         (call'.op = "update" /\ call'.id = id /\ groups[id].GroupType # "aggregate"
             /\ Referenced(id) /\ UpdateGroup(id, params, FALSE)) =>
            /\ ChangesCritical(groups[id], params) =>
                  call'.pc = "done" /\ call'.ret = "validation" /\ groups' = groups
            /\ (params.ChannelType # Nil /\ params.ValidationEndpoint # Nil
                   /\ ~ChangesCritical(groups[id], params)) =>
                  call'.pc = "save"]_vars

\* C22 witness: an update of group 1, which group 2 uses as a sub-group, has
\* returned a validation error and the row is the stored one
C22_Witness ==
    /\ call.op = "update" /\ call.pc = "done" /\ call.ret = "validation" /\ call.id = 1
    /\ Referenced(1)
    /\ groups[1].ChannelType = "openai" /\ groups[1].ValidationEndpoint = ""

\* C29: no step changes the group type of a stored group or the channel type
\* of a stored aggregate group, whatever group type, channel type or rules an
\* UpdateGroup call supplies; and no stored aggregate group has model redirect
\* rules, after any sequence of CreateGroup, UpdateGroup and CopyGroup calls.
C29_TypeIsFixed ==
    /\ [](\A g \in DOMAIN groups :
            groups[g].GroupType = "aggregate" => groups[g].ModelRedirectRules = {})
    /\ [][\A g \in DOMAIN groups :
            /\ g \in DOMAIN groups'
            /\ groups'[g].GroupType = groups[g].GroupType
            /\ groups[g].GroupType = "aggregate" =>
                  groups'[g].ChannelType = groups[g].ChannelType]_vars

\* C29 witness: an update of the aggregate group 2 has returned nil after a
\* copy of the group was made
C29_Witness ==
    /\ call.op = "update" /\ call.pc = "done" /\ call.ret = "ok" /\ call.id = 2
    /\ groups[2].GroupType = "aggregate"
    /\ 3 \in DOMAIN groups /\ groups[3].GroupType = "aggregate" /\ groups[3].Name # "k"

\* the fields a call supplies
Supplied(params) ==
    {f \in {"Name", "ChannelType", "ValidationEndpoint", "ModelRedirectRules", "Config",
            "HeaderRules"} : params[f] # Nil}
        \cup (IF params.HasUpstreams THEN {"Upstreams"} ELSE {})
        \cup (IF params.HasTestModel THEN {"TestModel"} ELSE {})

\* the row holds what the call has stored in the fields it supplied
HoldsChange(row, c) == \A f \in Supplied(c.params[1]) : row[f] = c.group[1][f]

ReturnedNil(c) == c.pc = "done" /\ c.ret = "ok"

\* C23: when two UpdateGroup calls on the same group that supply disjoint sets
\* of fields have both returned nil, the stored row holds the change of each
\* of them.
C23_BothChangesPresent ==
    \A v, w \in Workers :
       (v # w /\ ReturnedNil(upd[v]) /\ ReturnedNil(upd[w]) /\ upd[v].id = upd[w].id
            /\ Supplied(upd[v].params[1]) \cap Supplied(upd[w].params[1]) = {}) =>
          HoldsChange(groups[upd[v].id], upd[v]) /\ HoldsChange(groups[upd[w].id], upd[w])

====
